---- MODULE Spec2Model ----
(***************************************************************************)
(* A model of nelm's Kube Client facade (internal/kube/kube_client.go) and *)
(* of its Plan graph (internal/plan/plan.go).                              *)
(*                                                                         *)
(* Spec     : goroutines calling Get/Create/Apply/MergePatch/Delete on a   *)
(*            shared KubeClient, against a cluster others change too.      *)
(* SpecPlan : a caller building a Plan with AddOperation, AddDependency,   *)
(*            the staged variants and Optimize.                            *)
(* SpecExec : a Plan built of staged operations, then run by the executor. *)
(* SpecQuery: a Plan of typed operations, some of them run, and its        *)
(*            queries Useless and Worthy...Operations.                     *)
(* SpecLogger: goroutines calling Push, Pop, SetLevel and Level of the     *)
(*            LogboekLogger (pkg/log/logboek_logger.go).                   *)
(***************************************************************************)
EXTENDS Integers, FiniteSets, Sequences, TLC

(***************************************************************************)
(* Bounds of the model.                                                    *)
(***************************************************************************)
\* Object contents are the values 1..MaxVal; 0 stands for "no object".
MaxVal == 2
\* The mapper-reset counter is followed up to MaxResets resets.
MaxResets == 2
\* the latest time a Release method is called at
MaxTime == 3
\* the number of messages pushed into the logger's stashes
MaxMsgs == 2

Values == 1..MaxVal

\* The goroutines that call the facade concurrently.
Threads == {"t1", "t2"}

\* Resource identities, resource.VersionID(): (object, API version).  "crd" is
\* a resource whose GroupResource names a CustomResourceDefinition, "cm" an
\* ordinary object.
VersionIDs == {<<"crd", "v1">>, <<"cm", "v1">>}

NoVid == <<"", "">>
NoErr == "nil"
\* errors of the cluster RPC
ErrNotFound == "NotFound"
ErrOther == "Other"
\* errors of resource.GroupVersionResource() and resource.Namespaced()
ErrGVR == "GVR"
ErrNamespaced == "Namespaced"

NoEntry == [val |-> 0, err |-> "noentry"]
\* A call that leaves the cache entry of its resource as it is.
Keep == [val |-> 0, err |-> "keep"]
NoCall == [op |-> "none", vid |-> NoVid, opt |-> FALSE]
NoRet == [val |-> 0, err |-> NoErr, shared |-> FALSE]
NoMutation == [vid |-> NoVid, val |-> 0]
NoReturn == [call |-> NoCall, rpc |-> "none", ret |-> NoRet]

VARIABLES
    clusterCache,   \* KubeClient.clusterCache: VersionID -> NoEntry | {obj | err}
    resourceLocks,  \* KubeClient.resourceLocks: VersionID -> "absent" | "free" | holder
    mapperResets,   \* number of c.mapper.Reset() calls so far
    pc,             \* goroutine -> "idle" | "waiting" | "locked"
    call,           \* goroutine -> the facade call it is in
    holds,          \* goroutine -> the VersionID whose cached object it points to
    returned,       \* the call that returned in the last step: its RPC's answer, its result
    lastMutation,   \* the latest mutation that returned an object, until the next call on its resource returns
    graphV,         \* Plan.graph vertices: operation ID -> the operation stored, NoOp when none
    graphE,         \* Plan.graph edges: the set of <<from, to>>
    planErr,        \* what the last Plan call returned; "panic" when it panicked
    planCall,       \* the last Plan call: its name, its arguments, whether it changed the graph
    staged,         \* the <<op ID, in-stage ID, out-stage ID>> of the AddStagedOperation calls that returned
    opEmpty,        \* operation ID -> what Empty() of the operation stored under it answers
    opStatus,       \* operation ID -> Status() of the operation stored under it
    started,        \* the operation IDs the executor has started
    query,          \* the query of the Plan made in the last step: its name and its result
    executed,       \* the Execute that returned in the last step: its operation, its error, its Apply calls
    release,        \* the Release: its status, firstDeployed and lastDeployed (0: the zero time)
    releaseCall,    \* the last call on the Release: its name, its argument, its time, its result
    actionLock,     \* action.actionLock: "free" or the goroutine that holds it
    env,            \* the environment variable WERF_SECRET_KEY of the process, "" when unset
    logLevel,       \* log.Default: its level
    act,            \* goroutine -> the action it is in: its name, its position, opts.SecretKey, WERF_SECRET_KEY at its call
    stash,          \* LogboekLogger's stashes: level -> group -> the messages pushed, <<>> for no key
    stashLock,      \* level -> the lock of the level's stash: "free" or the goroutine that holds it
    levelLock,      \* the lock of LogboekLogger.level: "free" or the goroutine that writes
    lg,             \* goroutine -> the logger call it is in
    pushed,         \* message -> its level, its group, the logger's level when it was pushed
    handled,        \* message -> how many times a Pop took it from its stash
    emitted,        \* the messages handed to logboek so far, in order
    written,        \* the levels SetLevel calls have written
    levelRet        \* what the last Level call returned, "" before the first

kubeVars == <<clusterCache, resourceLocks, mapperResets, pc, call, holds, returned,
              lastMutation>>
graphVars == <<graphV, graphE, planErr, planCall, staged>>
opVars == <<opEmpty, opStatus, started, query, executed>>
planVars == <<graphV, graphE, planErr, planCall, staged, opEmpty, opStatus, started,
              query, executed>>
vars == <<clusterCache, resourceLocks, mapperResets, pc, call, holds, returned,
          lastMutation, graphV, graphE, planErr, planCall, staged, opEmpty, opStatus,
          started, query, executed, release, releaseCall, actionLock, env, logLevel, act,
          stash, stashLock, levelLock, lg, pushed, handled, emitted, written, levelRet>>
loggerVars == <<stash, stashLock, levelLock, lg, pushed, handled, emitted, levelRet>>
restVars == <<release, releaseCall, actionLock, env, logLevel, act, loggerVars, written>>

(***************************************************************************)
(* Unstructured objects.                                                   *)
(*                                                                         *)
(* An object is a pointer to a mutable map.  The model keeps the content   *)
(* of every object the client can still read: the object of each cache     *)
(* entry (clusterCache[vid].val).  A result says whether the pointer       *)
(* returned is the pointer stored in the cache entry (shared), so that the *)
(* caller and the cache have one object, or a pointer to an object of the  *)
(* caller's own.  holds[t] = vid says that goroutine t has the pointer of  *)
(* the entry of vid.  An object of the caller's own is of no consequence   *)
(* to the client, and so is a pointer to an object the cache has since     *)
(* replaced or removed: the model forgets both.                            *)
(***************************************************************************)
\* resultObj.DeepCopy(): a new object with the same content.
DeepCopy(v) == v

\* The goroutines that pointed to the entry of vid, now replaced or removed,
\* are left with an object of their own.
Detach(h, vid) == [t \in Threads |-> IF h[t] = vid THEN NoVid ELSE h[t]]

(***************************************************************************)
(* The cluster behind clientResource.  Other clients and the controllers   *)
(* of the cluster change it at any time, so an RPC may answer anything the *)
(* API server can answer: an object of any content, NotFound, or another   *)
(* error (a conflict, a transport error).                                  *)
(***************************************************************************)
RpcAnswers == {NoErr, ErrNotFound, ErrOther}

\* The object that comes with an answer: one of any content with a success.
RpcObjects(err) == IF err = NoErr THEN Values ELSE {0}

(***************************************************************************)
(* KubeClient                                                              *)
(***************************************************************************)
InitKube ==
    /\ clusterCache = [v \in VersionIDs |-> NoEntry]
    /\ resourceLocks = [v \in VersionIDs |-> "absent"]
    /\ mapperResets = 0
    /\ pc = [t \in Threads |-> "idle"]
    /\ call = [t \in Threads |-> NoCall]
    /\ holds = [t \in Threads |-> NoVid]
    /\ returned = NoReturn
    /\ lastMutation = NoMutation

\* &clusterCacheEntry{err: err}
ErrEntry(err) == [val |-> 0, err |-> err]

\* &clusterCacheEntry{obj: resultObj.DeepCopy()}
ObjEntry(v) == [val |-> DeepCopy(v), err |-> NoErr]

\* util.IsCRDFromGR(gvr.GroupResource())
IsCRDFromGR(vid) == vid[1] = "crd"

\* A resourceLock that stores a new mutex at every call (Store for LoadOrStore).
resourceLockStore(locks, vid) == [locks EXCEPT ![vid] = "free"]

\* A resourceLock that stores a mutex for every resource that has none.
resourceLockEvery(locks, vid) ==
    [v \in VersionIDs |-> IF locks[v] = "absent" THEN "free" ELSE locks[v]]

\* c.resourceLocks.LoadOrStore(resource.VersionID(), &sync.Mutex{})
resourceLock(locks, vid) ==
    IF locks[vid] = "absent" THEN [locks EXCEPT ![vid] = "free"] ELSE locks

\* The first two lookups of every call but a cache hit:
\* resource.GroupVersionResource(), then resource.Namespaced().
LookupOutcomes == {NoErr, ErrGVR, ErrNamespaced}

\* A Get that answers from the cache only what is an object.
TryCacheObjects(opts, e) == opts /\ e # NoEntry /\ e.err = NoErr

\* Whether Get answers from the cache.
TryCache(opts, e) == opts /\ e # NoEntry

\* Get, on a cache hit: the cached error, or the cached object itself (the
\* pointer in the entry, not a copy of the object).
CacheHit(e) ==
    IF e.err # NoErr THEN [val |-> 0, err |-> e.err, shared |-> FALSE]
    ELSE [val |-> e.val, err |-> NoErr, shared |-> TRUE]

\* What a call returns with the object the RPC gave it.
Result(v) == [val |-> v, err |-> NoErr, shared |-> FALSE]

\* An error returned: fmt.Errorf("...: %w", err).
Failure(err) == [val |-> 0, err |-> err, shared |-> FALSE]

\* What Get writes into the cache after its RPC.
GetCaches(err, v) == IF err # NoErr THEN ErrEntry(err) ELSE ObjEntry(v)

\* A Create that caches errors only.
CreateCachesErrors(err, v) == IF err # NoErr THEN ErrEntry(err) ELSE Keep

\* What Create writes into the cache after its RPC.
CreateCaches(err, v) == IF err # NoErr THEN ErrEntry(err) ELSE ObjEntry(v)

\* An Apply that caches the result of a dry run too.
ApplyCachesDryRun(dryRun, err, v) == IF err # NoErr THEN ErrEntry(err) ELSE ObjEntry(v)

\* What Apply writes into the cache after its RPC: nothing on a dry run.
ApplyCaches(dryRun, err, v) ==
    IF dryRun THEN Keep
    ELSE IF err # NoErr THEN ErrEntry(err) ELSE ObjEntry(v)

\* What MergePatch writes into the cache after its RPC.
MergePatchCaches(err, v) ==
    IF err = ErrNotFound THEN Keep
    ELSE IF err # NoErr THEN ErrEntry(err) ELSE ObjEntry(v)

\* What Delete does to the cache after its RPC: c.clusterCache.Delete(key)
\* when the cluster deleted the object.
DeleteCaches(err) == IF err # NoErr THEN Keep ELSE NoEntry

\* Whether a successful Apply resets the mapper.
ApplyResetsMapper(vid, dryRun) == IsCRDFromGR(vid) /\ ~dryRun

\* A Create that resets the mapper for every resource.
CreateResetsMapperAlways(vid) == TRUE

\* Whether a successful Create resets the mapper.
CreateResetsMapper(vid) == IsCRDFromGR(vid)

\* A return that downgrades NotFound to nil, as MergePatch does.
ReturnsDowngrading(err, v) ==
    IF err = ErrNotFound THEN NoRet
    ELSE IF err # NoErr THEN Failure(err) ELSE Result(v)

\* What Get, Create and Apply return after their RPC.
Returns(err, v) == IF err # NoErr THEN Failure(err) ELSE Result(v)

\* What MergePatch returns after its RPC: errors.IsNotFound(err) is downgraded
\* to (nil, nil).
MergePatchReturns(err, v) ==
    IF err = ErrNotFound THEN NoRet
    ELSE IF err # NoErr THEN Failure(err) ELSE Result(v)

\* What Delete returns after its RPC: errors.IsNotFound(err) is downgraded to nil.
DeleteReturns(err) ==
    IF err = ErrNotFound \/ err = NoErr THEN NoRet ELSE Failure(err)

\* A goroutine enters a facade call: it fetches the resource's mutex.  It no
\* longer uses the object of its previous call.
Invoke(t) ==
    /\ pc[t] = "idle"
    /\ \E op \in {"Get", "Create", "Apply", "MergePatch", "Delete"},
          vid \in VersionIDs, opt \in BOOLEAN :
          /\ opt => op \in {"Get", "Apply"}
          /\ call' = [call EXCEPT ![t] = [op |-> op, vid |-> vid, opt |-> opt]]
          /\ resourceLocks' = resourceLock(resourceLocks, vid)
    /\ pc' = [pc EXCEPT ![t] = "waiting"]
    /\ holds' = [holds EXCEPT ![t] = NoVid]
    /\ returned' = NoReturn
    /\ UNCHANGED <<clusterCache, mapperResets, lastMutation, planVars, restVars>>

\* Whether lock.Lock() can proceed.
CanLock(locks, vid) == locks[vid] = "free"

\* lock.Lock()
Lock(t) ==
    /\ pc[t] = "waiting"
    /\ CanLock(resourceLocks, call[t].vid)
    /\ resourceLocks' = [resourceLocks EXCEPT ![call[t].vid] = t]
    /\ pc' = [pc EXCEPT ![t] = "locked"]
    /\ returned' = NoReturn
    /\ UNCHANGED <<clusterCache, mapperResets, call, holds, lastMutation, planVars, restVars>>

\* The rest of a call under the mutex, to its return: what it writes into the
\* cache (an entry, NoEntry to remove the entry, Keep to leave it), what it
\* returns, the answer of its RPC ("none" without RPC), whether it resets the
\* mapper, and the deferred lock.Unlock().
Finish(t, write, r, out, reset) ==
    LET vid == call[t].vid
        mutation == /\ r.err = NoErr /\ r.val # 0
                    /\ call[t].op \in {"Create", "MergePatch"}
                          \/ (call[t].op = "Apply" /\ ~call[t].opt)
    IN  /\ reset => mapperResets < MaxResets
        /\ clusterCache' = IF write = Keep THEN clusterCache
                           ELSE [clusterCache EXCEPT ![vid] = write]
        /\ holds' = [IF write = Keep THEN holds ELSE Detach(holds, vid)
                        EXCEPT ![t] = IF r.shared THEN vid ELSE NoVid]
        /\ mapperResets' = IF reset THEN mapperResets + 1 ELSE mapperResets
        /\ returned' = [call |-> call[t], rpc |-> out, ret |-> r]
        /\ lastMutation' = IF mutation
                           THEN [vid |-> vid, val |-> r.val]
                           ELSE IF lastMutation.vid = vid THEN NoMutation
                           ELSE lastMutation
        /\ resourceLocks' = [resourceLocks EXCEPT ![vid] = "free"]
        /\ pc' = [pc EXCEPT ![t] = "idle"]
        /\ call' = [call EXCEPT ![t] = NoCall]
        /\ UNCHANGED <<planVars, restVars>>

\* An early return that leaves the mutex locked.
FailEarlyLocked(t, err) ==
    /\ returned' = [call |-> call[t], rpc |-> "none", ret |-> Failure(err)]
    /\ holds' = [holds EXCEPT ![t] = NoVid]
    /\ lastMutation' = IF lastMutation.vid = call[t].vid THEN NoMutation
                       ELSE lastMutation
    /\ pc' = [pc EXCEPT ![t] = "idle"]
    /\ call' = [call EXCEPT ![t] = NoCall]
    /\ UNCHANGED <<clusterCache, mapperResets, resourceLocks, planVars, restVars>>

\* A call that returns err without having reached the cluster or the cache.
FailEarly(t, err) == Finish(t, Keep, Failure(err), "none", FALSE)

Get(t) ==
    /\ pc[t] = "locked" /\ call[t].op = "Get"
    /\ LET e == clusterCache[call[t].vid]
       IN  IF TryCache(call[t].opt, e)
           THEN Finish(t, Keep, CacheHit(e), "none", FALSE)
           ELSE \E lk \in LookupOutcomes :
                   IF lk # NoErr THEN FailEarly(t, lk)
                   ELSE \E err \in RpcAnswers : \E v \in RpcObjects(err) :
                           Finish(t, GetCaches(err, v), Returns(err, v), err, FALSE)

Create(t) ==
    /\ pc[t] = "locked" /\ call[t].op = "Create"
    /\ \E lk \in LookupOutcomes :
          IF lk # NoErr THEN FailEarly(t, lk)
          ELSE \E err \in RpcAnswers : \E v \in RpcObjects(err) :
                  Finish(t, CreateCaches(err, v), Returns(err, v), err,
                         err = NoErr /\ CreateResetsMapper(call[t].vid))

Apply(t) ==
    /\ pc[t] = "locked" /\ call[t].op = "Apply"
    /\ \E lk \in LookupOutcomes :
          IF lk # NoErr THEN FailEarly(t, lk)
          ELSE \E err \in RpcAnswers : \E v \in RpcObjects(err) :
                  Finish(t, ApplyCaches(call[t].opt, err, v), Returns(err, v), err,
                         err = NoErr /\ ApplyResetsMapper(call[t].vid, call[t].opt))

MergePatch(t) ==
    /\ pc[t] = "locked" /\ call[t].op = "MergePatch"
    /\ \E lk \in LookupOutcomes :
          IF lk # NoErr THEN FailEarly(t, lk)
          ELSE \E err \in RpcAnswers : \E v \in RpcObjects(err) :
                  Finish(t, MergePatchCaches(err, v), MergePatchReturns(err, v), err,
                         FALSE)

Delete(t) ==
    /\ pc[t] = "locked" /\ call[t].op = "Delete"
    /\ \E lk \in LookupOutcomes :
          IF lk # NoErr THEN FailEarly(t, lk)
          ELSE \E err \in RpcAnswers :
                  Finish(t, DeleteCaches(err), DeleteReturns(err), err, FALSE)

\* A caller changes the object a call returned to it.  Only a change of an
\* object the cache points to is of consequence.
CallerMutate(t) ==
    /\ pc[t] = "idle"
    /\ holds[t] # NoVid
    /\ \E v \in Values \ {clusterCache[holds[t]].val} :
          clusterCache' = [clusterCache EXCEPT ![holds[t]].val = v]
    /\ returned' = NoReturn
    /\ UNCHANGED <<resourceLocks, mapperResets, pc, call, holds, lastMutation, planVars, restVars>>

(***************************************************************************)
(* Plan: a directed graph of operations keyed by op.ID(), made by          *)
(* graph.New(hash, graph.Acyclic(), graph.PreventCycles(),                 *)
(* graph.Directed()).                                                      *)
(***************************************************************************)
\* The operation IDs the caller uses, for operations and for stage markers.
OpIDs == {"a", "b", "c"}

\* What a vertex stores: an operation the caller passed ("op"), or a stage
\* marker made by operation.NewStageOperation ("stage").
NoOp == ""
NoPlanCall == [name |-> "none", args |-> <<>>, changed |-> FALSE]

\* The IDs of the plans that are run: the markers of two consecutive stages
\* (stage/1 -> stage/2 and stage/2 -> stage/3) and two apply operations.
StageIDs == {"stage/1", "stage/2", "stage/3"}
Stages == {<<"stage/1", "stage/2">>, <<"stage/2", "stage/3">>}
ExecOpIDs == {"apply/x", "apply/y"}

\* The IDs of the plans that are queried: an operation of each sort of kind.
QueryIDs == {"apply/x", "extra-post-apply/x", "track-absence/x", "stage/1",
             "release/r/fail"}

TypeApplyResourceOperation == "apply"
TypeExtraPostApplyResourceOperation == "extra-post-apply"

\* resource.ID() of the resources of the apply operations.
ResourceIDs == {"x", "y"}

\* An ID() that tells the resource only.
IDWithoutKind(extraPost, resource) ==
    TypeApplyResourceOperation \o "/" \o resource

\* ApplyResourceOperation.ID of the operation of a resource, extra-post or
\* not.
ID(extraPost, resource) ==
    IF extraPost
    THEN TypeExtraPostApplyResourceOperation \o "/" \o resource
    ELSE TypeApplyResourceOperation \o "/" \o resource

\* ApplyResourceOperation.Type.
OperationType(extraPost) ==
    IF extraPost THEN TypeExtraPostApplyResourceOperation
    ELSE TypeApplyResourceOperation

PlanIDs ==
    OpIDs \cup StageIDs \cup ExecOpIDs \cup QueryIDs
        \cup {ID(extraPost, resource) : extraPost \in BOOLEAN, resource \in ResourceIDs}

\* Status() of an operation.
StatusUnknown == "unknown"
StatusCompleted == "completed"
StatusFailed == "failed"

NoQuery == [name |-> "none", ops |-> {}, useless |-> FALSE]
NoExecute == [id |-> NoOp, err |-> "nil", applies |-> 0]

ErrVertexAlreadyExists == "ErrVertexAlreadyExists"
ErrVertexNotFound == "ErrVertexNotFound"
ErrEdgeAlreadyExists == "ErrEdgeAlreadyExists"
ErrEdgeCreatesCycle == "ErrEdgeCreatesCycle"

InitPlan ==
    /\ graphV = [id \in PlanIDs |-> NoOp]
    /\ graphE = {}
    /\ planErr = "nil"
    /\ planCall = NoPlanCall
    /\ staged = {}
    /\ opEmpty = [id \in PlanIDs |-> FALSE]
    /\ opStatus = [id \in PlanIDs |-> StatusUnknown]
    /\ started = {}
    /\ query = NoQuery
    /\ executed = NoExecute

\* An AddVertex that stores the vertex over the one that is there.
AddVertexOverwrite(g, id, op) ==
    [g EXCEPT !.V[id] = op,
              !.err = IF g.V[id] # NoOp THEN ErrVertexAlreadyExists ELSE "nil"]

\* graph.AddVertex(op): the vertex is stored under op.ID() unless one is there.
AddVertex(g, id, op) ==
    IF g.V[id] # NoOp THEN [g EXCEPT !.err = ErrVertexAlreadyExists]
    ELSE [g EXCEPT !.V[id] = op, !.err = "nil"]

\* The vertices from which a vertex of frontier is reached along the edges E
\* (visited: those found so far), as graph.CreatesCycle walks the predecessor
\* map from the source of the new edge.
RECURSIVE Ancestors(_, _, _)
Ancestors(E, frontier, visited) ==
    IF frontier \subseteq visited THEN visited
    ELSE Ancestors(E, {e[1] : e \in {x \in E : x[2] \in frontier \ visited}},
                   visited \cup frontier)

\* A cycle check that looks one edge back only.
CreatesCycleShallow(E, source, target) ==
    source = target \/ <<target, source>> \in E

\* graph.CreatesCycle(source, target): the edge source -> target closes a
\* cycle when the two are one vertex or target is reached backwards from source.
CreatesCycle(E, source, target) ==
    source = target \/ target \in Ancestors(E, {source}, {})

\* An AddEdge that reports the cycle after it has added the edge.
AddEdgeReporting(g, source, target) ==
    IF g.V[source] = NoOp \/ g.V[target] = NoOp
    THEN [g EXCEPT !.err = ErrVertexNotFound]
    ELSE IF <<source, target>> \in g.E THEN [g EXCEPT !.err = ErrEdgeAlreadyExists]
    ELSE [g EXCEPT !.E = g.E \cup {<<source, target>>},
                   !.err = IF CreatesCycle(g.E, source, target)
                           THEN ErrEdgeCreatesCycle ELSE "nil"]

\* graph.AddEdge(source, target) of a directed graph that prevents cycles.
AddEdge(g, source, target) ==
    IF g.V[source] = NoOp \/ g.V[target] = NoOp
    THEN [g EXCEPT !.err = ErrVertexNotFound]
    ELSE IF <<source, target>> \in g.E THEN [g EXCEPT !.err = ErrEdgeAlreadyExists]
    ELSE IF CreatesCycle(g.E, source, target) THEN [g EXCEPT !.err = ErrEdgeCreatesCycle]
    ELSE [g EXCEPT !.E = g.E \cup {<<source, target>>}, !.err = "nil"]

\* Plan.AddOperation: ErrVertexAlreadyExists is not an error; any other is a panic.
PlanAddOperation(g, id, op) ==
    LET r == AddVertex(g, id, op)
    IN  IF r.err \in {"nil", ErrVertexAlreadyExists} THEN [r EXCEPT !.err = "nil"]
        ELSE [r EXCEPT !.err = "panic"]

\* An AddDependency that returns every error of AddEdge.
PlanAddDependencyStrict(g, fromOpID, toOpID) == AddEdge(g, fromOpID, toOpID)

\* Plan.AddDependency: ErrEdgeAlreadyExists is not an error; any other is returned.
PlanAddDependency(g, fromOpID, toOpID) ==
    LET r == AddEdge(g, fromOpID, toOpID)
    IN  IF r.err = ErrEdgeAlreadyExists THEN [r EXCEPT !.err = "nil"] ELSE r

\* A dependency whose error is dropped.
MustAddDependencyLenient(g, fromOpID, toOpID) ==
    IF g.err = "panic" THEN g
    ELSE [PlanAddDependency(g, fromOpID, toOpID) EXCEPT !.err = "nil"]

\* lo.Must0(p.AddDependency(from, to)): an error is a panic.  Nothing more is
\* done once a panic unwinds the call.
MustAddDependency(g, fromOpID, toOpID) ==
    IF g.err = "panic" THEN g
    ELSE LET r == PlanAddDependency(g, fromOpID, toOpID)
         IN  IF r.err # "nil" THEN [r EXCEPT !.err = "panic"] ELSE r

\* A stage marker stored whether or not the ID is found.
EnsureStageOverwrite(g, stageID) ==
    IF g.err = "panic" THEN g ELSE [g EXCEPT !.V[stageID] = "stage"]

\* if _, found := p.Operation(stageID); !found { p.AddOperation(NewStageOperation(stageID)) }
EnsureStage(g, stageID) ==
    IF g.err = "panic" \/ g.V[stageID] # NoOp THEN g
    ELSE PlanAddOperation(g, stageID, "stage")

Graph == [V |-> graphV, E |-> graphE, err |-> "nil"]

\* The end of a Plan call: the graph it leaves and what it returned.
PlanReturn(g, name, args) ==
    /\ planErr # "panic"
    /\ graphV' = g.V
    /\ graphE' = g.E
    /\ planErr' = g.err
    /\ planCall' = [name |-> name, args |-> args,
                    changed |-> (g.V # graphV \/ g.E # graphE)]
    /\ staged' = IF name = "AddStagedOperation" /\ g.err = "nil"
                 THEN staged \cup {args} ELSE staged
    /\ UNCHANGED <<restVars, kubeVars, opVars>>

AddOperation(id) ==
    PlanReturn(PlanAddOperation(Graph, id, "op"), "AddOperation", <<id>>)

\* An AddStagedOperation that leaves out the edge from the in-stage marker to
\* the operation.
\* p.AddOperation(op) of an ApplyResourceOperation of a resource, stored
\* under op.ID().
AddApplyOperation(extraPost, resource) ==
    PlanReturn(PlanAddOperation(Graph, ID(extraPost, resource), "op"),
               "AddApplyOperation", <<OperationType(extraPost), resource>>)

\* An AddStagedOperation that leaves the graph as it was when it panics.
AddStagedOperationAtomic(id, stageInID, stageOutID) ==
    LET g1 == PlanAddOperation(Graph, id, "op")
        g2 == EnsureStage(g1, stageInID)
        g3 == EnsureStage(g2, stageOutID)
        g4 == MustAddDependency(g3, stageInID, stageOutID)
        g5 == MustAddDependency(g4, stageInID, id)
        g6 == MustAddDependency(g5, id, stageOutID)
    IN  PlanReturn(IF g6.err = "panic" THEN [Graph EXCEPT !.err = "panic"] ELSE g6,
                   "AddStagedOperation", <<id, stageInID, stageOutID>>)

AddStagedOperationLoose(id, stageInID, stageOutID) ==
    LET g1 == PlanAddOperation(Graph, id, "op")
        g2 == EnsureStage(g1, stageInID)
        g3 == EnsureStage(g2, stageOutID)
        g4 == MustAddDependency(g3, stageInID, stageOutID)
        g5 == MustAddDependency(g4, id, stageOutID)
    IN  PlanReturn(g5, "AddStagedOperation", <<id, stageInID, stageOutID>>)

AddStagedOperation(id, stageInID, stageOutID) ==
    LET g1 == PlanAddOperation(Graph, id, "op")
        g2 == EnsureStage(g1, stageInID)
        g3 == EnsureStage(g2, stageOutID)
        g4 == MustAddDependency(g3, stageInID, stageOutID)
        g5 == MustAddDependency(g4, stageInID, id)
        g6 == MustAddDependency(g5, id, stageOutID)
    IN  PlanReturn(g6, "AddStagedOperation", <<id, stageInID, stageOutID>>)

AddInStagedOperation(id, stageInID) ==
    LET g1 == PlanAddOperation(Graph, id, "op")
        g2 == EnsureStage(g1, stageInID)
        g3 == MustAddDependency(g2, stageInID, id)
    IN  PlanReturn(g3, "AddInStagedOperation", <<id, stageInID>>)

AddOutStagedOperation(id, stageOutID) ==
    LET g1 == PlanAddOperation(Graph, id, "op")
        g2 == EnsureStage(g1, stageOutID)
        g3 == MustAddDependency(g2, id, stageOutID)
    IN  PlanReturn(g3, "AddOutStagedOperation", <<id, stageOutID>>)

AddDependency(fromOpID, toOpID) ==
    PlanReturn(PlanAddDependency(Graph, fromOpID, toOpID), "AddDependency",
               <<fromOpID, toOpID>>)

\* The direct successors of the vertices of S.
Successors(E, S) == {e[2] : e \in {x \in E : x[1] \in S}}

\* The vertices a depth-first search from frontier visits along the edges E
\* (visited: those found so far).
RECURSIVE Descendants(_, _, _)
Descendants(E, frontier, visited) ==
    IF frontier \subseteq visited THEN visited
    ELSE Descendants(E, Successors(E, frontier \ visited), visited \cup frontier)

\* A reduction that also drops the edges to the direct successors a search
\* starts from.
TransitiveReductionEager(E) ==
    E \ {e \in E : e[2] \in Descendants(E, Successors(E, {e[1]}), {})}

\* graph.TransitiveReduction(p.graph): for each vertex and each of its direct
\* successors, a search from the successor; the edge from the vertex to any
\* vertex the search reaches beyond the successor is removed.
TransitiveReduction(E) ==
    E \ {e \in E : \E v \in Successors(E, {e[1]}) :
                     e[2] \in Descendants(E, Successors(E, {v}), {})}

\* Plan.Optimize: p.graph, err = graph.TransitiveReduction(p.graph), which
\* fails on a graph with a cycle (p.graph is then nil).
PlanOptimize(g) ==
    IF \E v \in DOMAIN g.V : v \in Descendants(g.E, Successors(g.E, {v}), {})
    THEN [V |-> [id \in DOMAIN g.V |-> NoOp], E |-> {}, err |-> "ErrCycle"]
    ELSE [g EXCEPT !.E = TransitiveReduction(g.E), !.err = "nil"]

Optimize ==
    PlanReturn(PlanOptimize(Graph), "Optimize", <<>>)

(***************************************************************************)
(* The executor and the operations it runs.                                *)
(***************************************************************************)
\* op.Type() of the operation with a given ID.  ApplyResourceOperation.ID()
\* is Type() + "/" + resource.ID(); the IDs of the other kinds are formed
\* alike.
Type ==
    [id \in PlanIDs \ OpIDs |->
        CASE id \in {"apply/x", "apply/y"} -> TypeApplyResourceOperation
          [] id \in {"extra-post-apply/x", "extra-post-apply/y"} ->
                TypeExtraPostApplyResourceOperation
          [] id = "track-absence/x" -> "track-absence"
          [] id = "release/r/fail" -> "fail-release"
          [] OTHER -> "stage"]

\* Plan.PredecessorMap()[id]: the vertices with an edge to id.
Predecessors(E, id) == {e[1] : e \in {x \in E : x[2] = id}}

\* An executor that runs only the operations without predecessors.
ReadyRoots(id) ==
    /\ graphV[id] # NoOp
    /\ id \notin started
    /\ Predecessors(graphE, id) = {}

\* The ready-set: the operations not started yet whose predecessors are all
\* completed.
Ready(id) ==
    /\ graphV[id] # NoOp
    /\ id \notin started
    /\ \A pred \in Predecessors(graphE, id) : opStatus[pred] = StatusCompleted

\* An operation has failed: the executor cancels the operations not started
\* yet.
Canceling == \E f \in DOMAIN graphV : graphV[f] # NoOp /\ opStatus[f] = StatusFailed

\* The executor picks an operation of the ready-set and starts it; once an
\* operation has failed it starts nothing but the failure of the release.
Start(id) ==
    /\ planErr # "panic"
    /\ Ready(id)
    /\ Canceling => Type[id] = "fail-release"
    /\ started' = started \cup {id}
    /\ query' = NoQuery
    /\ executed' = NoExecute
    /\ UNCHANGED <<restVars, kubeVars, graphVars, opEmpty, opStatus>>

\* What the one cluster interaction of Execute may answer.  An apply
\* operation calls kubeClient.Apply, which returns the error of a lookup or
\* of the RPC; a stage marker interacts with nothing.
ExecuteAnswers(id) ==
    IF graphV[id] = "stage" THEN {NoErr}
    ELSE RpcAnswers \cup LookupOutcomes

\* An Execute that records a failure only when the resource is there.
ExecuteStatusUnlessNotFound(err) ==
    IF err = NoErr THEN StatusCompleted
    ELSE IF err = ErrNotFound THEN StatusUnknown ELSE StatusFailed

\* ApplyResourceOperation.Execute: o.status = StatusFailed on an error of
\* Apply, StatusCompleted otherwise.
ExecuteStatus(err) == IF err # NoErr THEN StatusFailed ELSE StatusCompleted

\* An operation that was started runs to its end: Execute calls
\* kubeClient.Apply once (a stage marker calls nothing), sets the status by
\* the error of the call and returns that error, wrapped.
Execute(id) ==
    /\ id \in started
    /\ opStatus[id] = StatusUnknown
    /\ \E err \in ExecuteAnswers(id) :
          /\ opStatus' = [opStatus EXCEPT ![id] = ExecuteStatus(err)]
          /\ executed' = [id |-> id, err |-> err,
                          applies |-> IF graphV[id] = "stage" THEN 0 ELSE 1]
    /\ query' = NoQuery
    /\ UNCHANGED <<restVars, kubeVars, graphVars, opEmpty, started>>

(***************************************************************************)
(* Typed operations and the queries of the Plan.                           *)
(***************************************************************************)
\* What Empty() of a new operation of a kind may answer: false for an apply
\* operation, true for a stage marker, either for the other kinds.
EmptyAnswers(type) ==
    IF type \in {TypeApplyResourceOperation, TypeExtraPostApplyResourceOperation}
    THEN {FALSE}
    ELSE IF type = "stage" THEN {TRUE} ELSE BOOLEAN

\* p.AddOperation(op) of a new operation of the kind of id, not run yet.
AddNewOperation(id, empty) ==
    LET g == PlanAddOperation(Graph, id, IF Type[id] = "stage" THEN "stage" ELSE "op")
    IN  /\ planErr # "panic"
        /\ started = {}
        /\ graphV[id] = NoOp
        /\ graphV' = g.V
        /\ planErr' = g.err
        /\ planCall' = [name |-> "AddOperation", args |-> <<id>>, changed |-> TRUE]
        /\ opEmpty' = [opEmpty EXCEPT ![id] = empty]
        /\ query' = NoQuery
        /\ executed' = NoExecute
        /\ UNCHANGED <<restVars, kubeVars, graphE, staged, opStatus, started>>

\* The switch of WorthyCompletedOperations.
WorthyCompletedTypes ==
    {"create", "recreate", "update", "apply", "delete",
     "extra-post-create", "extra-post-recreate", "extra-post-apply",
     "extra-post-update", "extra-post-delete"}

\* The switch of WorthyCanceledOperations.
WorthyCanceledTypes == {"create", "recreate", "update", "apply", "delete"}

\* The switch of Useless.
UselessTypes ==
    {"create", "recreate", "update", "apply", "delete", "fail-release",
     "track-readiness", "track-presence", "track-absence",
     "extra-post-create", "extra-post-recreate", "extra-post-apply",
     "extra-post-update", "extra-post-delete"}

\* Plan.Operations: the operations of the vertices, here by their IDs.
PlanOperations(V) == {id \in DOMAIN V : V[id] # NoOp}

PlanCompletedOperations(V, st) ==
    {id \in PlanOperations(V) : st[id] = StatusCompleted}

PlanFailedOperations(V, st) ==
    {id \in PlanOperations(V) : st[id] = StatusFailed}

\* A CanceledOperations that keeps the operations that were never started.
PlanCanceledNotStarted(V, st) ==
    {id \in PlanOperations(V) : id \notin started}

PlanCanceledOperations(V, st) ==
    {id \in PlanOperations(V) : st[id] = StatusUnknown}

PlanWorthyCompletedOperations(V, st) ==
    {id \in PlanCompletedOperations(V, st) : Type[id] \in WorthyCompletedTypes}

\* WorthyFailedOperations appends every failed operation.
PlanWorthyFailedOperations(V, st) == PlanFailedOperations(V, st)

PlanWorthyCanceledOperations(V, st) ==
    {id \in PlanCanceledOperations(V, st) : Type[id] \in WorthyCanceledTypes}

\* A Useless that wants an operation in the plan.
PlanUselessFound(V, em) ==
    /\ PlanOperations(V) # {}
    /\ \A id \in PlanOperations(V) : Type[id] \in UselessTypes => em[id]

\* Plan.Useless: true without operations; false as soon as an operation of
\* one of the kinds of the switch is not Empty().
PlanUseless(V, em) ==
    IF PlanOperations(V) = {} THEN TRUE
    ELSE ~\E id \in PlanOperations(V) : Type[id] \in UselessTypes /\ ~em[id]

\* The return of a query: it changes nothing of the plan.
QueryReturn(name, ops, useless) ==
    /\ planErr # "panic"
    /\ query' = [name |-> name, ops |-> ops, useless |-> useless]
    /\ executed' = NoExecute
    /\ UNCHANGED <<restVars, kubeVars, graphVars, opEmpty, opStatus, started>>

Useless ==
    QueryReturn("Useless", {}, PlanUseless(graphV, opEmpty))

CompletedOperations ==
    QueryReturn("CompletedOperations",
                PlanCompletedOperations(graphV, opStatus), FALSE)

FailedOperations ==
    QueryReturn("FailedOperations",
                PlanFailedOperations(graphV, opStatus), FALSE)

CanceledOperations ==
    QueryReturn("CanceledOperations",
                PlanCanceledOperations(graphV, opStatus), FALSE)

WorthyCompletedOperations ==
    QueryReturn("WorthyCompletedOperations",
                PlanWorthyCompletedOperations(graphV, opStatus), FALSE)

WorthyFailedOperations ==
    QueryReturn("WorthyFailedOperations",
                PlanWorthyFailedOperations(graphV, opStatus), FALSE)

WorthyCanceledOperations ==
    QueryReturn("WorthyCanceledOperations",
                PlanWorthyCanceledOperations(graphV, opStatus), FALSE)

(***************************************************************************)
(* The Release.                                                            *)
(***************************************************************************)
\* helmrelease.Status.
ReleaseStatuses ==
    {"unknown", "deployed", "uninstalled", "superseded", "failed", "uninstalling",
     "pending-install", "pending-upgrade", "pending-rollback", "skipped"}

\* common.DeployType: the four that Pend tells apart, and another one.
DeployTypes == {"Initial", "Install", "Upgrade", "Rollback", "Uninstall"}

NoRelease ==
    [name |-> "", namespace |-> "", revision |-> 0, values |-> "", notes |-> "",
     hookResources |-> <<>>, generalResources |-> <<>>,
     status |-> "none", firstDeployed |-> 0, lastDeployed |-> 0]
NoReleaseCall == [name |-> "none", arg |-> "", at |-> 0, result |-> FALSE]

InitRelease == release = NoRelease /\ releaseCall = NoReleaseCall

\* time.Now() of a call: not before the time of the call before it.
Now == {t \in {releaseCall.at, releaseCall.at + 1} : 1 <= t /\ t <= MaxTime}

\* The return of a call on the Release at time now: r is the Release after it.
ReleaseReturn(r, name, arg, now, result) ==
    /\ release' = r
    /\ releaseCall' = [name |-> name, arg |-> arg, at |-> now, result |-> result]
    /\ UNCHANGED <<kubeVars, planVars, actionLock, env, logLevel, act, loggerVars,
                   written>>

\* NewRelease with opts.Status, opts.FirstDeployed and opts.LastDeployed: the
\* resources (here their IDs, numbers) are sorted and the white space at the
\* end of the notes is cut.
NewRelease(name, revision, generalResources, notes, optsStatus, optsFirstDeployed, optsLastDeployed) ==
    LET Sorted(rs) == IF Len(rs) = 2 /\ rs[1] > rs[2] THEN <<rs[2], rs[1]>> ELSE rs
        RECURSIVE TrimRight(_)
        TrimRight(str) ==
            IF Len(str) > 0 /\ SubSeq(str, Len(str), Len(str)) = " "
            THEN TrimRight(SubSeq(str, 1, Len(str) - 1))
            ELSE str
    IN  /\ release = NoRelease
        /\ \E now \in Now :
              /\ optsFirstDeployed <= now /\ optsLastDeployed <= now
              /\ ReleaseReturn([name |-> name, namespace |-> "ns", revision |-> revision,
                                values |-> "values", notes |-> TrimRight(notes),
                                hookResources |-> <<>>,
                                generalResources |-> Sorted(generalResources),
                                status |-> IF optsStatus = "" THEN "unknown" ELSE optsStatus,
                                firstDeployed |-> optsFirstDeployed,
                                lastDeployed |-> optsLastDeployed],
                               "NewRelease", optsStatus, now, FALSE)

\* A Pend that takes every deployment for an installation.
PendInstall(deployType) ==
    /\ release # NoRelease
    /\ \E now \in Now :
          ReleaseReturn([release EXCEPT
                           !.status = "pending-install",
                           !.firstDeployed = IF release.firstDeployed = 0 THEN now
                                             ELSE release.firstDeployed,
                           !.lastDeployed = now],
                        "Pend", deployType, now, FALSE)

Pend(deployType) ==
    /\ release # NoRelease
    /\ \E now \in Now :
          ReleaseReturn([release EXCEPT
                           !.status = CASE deployType \in {"Initial", "Install"} -> "pending-install"
                                        [] deployType = "Upgrade" -> "pending-upgrade"
                                        [] deployType = "Rollback" -> "pending-rollback"
                                        [] OTHER -> "pending-install",
                           !.firstDeployed = IF release.firstDeployed = 0 THEN now
                                             ELSE release.firstDeployed,
                           !.lastDeployed = now],
                        "Pend", deployType, now, FALSE)

\* A Fail that notes the time of the failure.
FailStamped ==
    /\ release # NoRelease
    /\ \E now \in Now :
          ReleaseReturn([release EXCEPT !.status = "failed", !.lastDeployed = now],
                        "Fail", "", now, FALSE)

Fail ==
    /\ release # NoRelease
    /\ \E now \in Now :
          ReleaseReturn([release EXCEPT !.status = "failed"], "Fail", "", now, FALSE)

Supersede ==
    /\ release # NoRelease
    /\ \E now \in Now :
          ReleaseReturn([release EXCEPT !.status = "superseded"], "Supersede", "", now, FALSE)

Succeed ==
    /\ release # NoRelease
    /\ \E now \in Now :
          ReleaseReturn([release EXCEPT !.status = "deployed"], "Succeed", "", now, FALSE)

Skip ==
    /\ release # NoRelease
    /\ \E now \in Now :
          ReleaseReturn([release EXCEPT !.status = "skipped"], "Skip", "", now, FALSE)

\* A Succeeded that holds of every status a release may be left in.
SucceededOrSkipped ==
    /\ release # NoRelease
    /\ \E now \in Now :
          ReleaseReturn(release, "Succeeded", "", now,
                        release.status \in {"deployed", "superseded", "uninstalled",
                                            "skipped"})

Succeeded ==
    /\ release # NoRelease
    /\ \E now \in Now :
          ReleaseReturn(release, "Succeeded", "", now,
                        release.status \in {"deployed", "superseded", "uninstalled"})

\* A Failed that holds of a deployed release too.
FailedOrDeployed ==
    /\ release # NoRelease
    /\ \E now \in Now :
          ReleaseReturn(release, "Failed", "", now,
                        release.status \in {"failed", "unknown", "pending-install",
                                            "pending-upgrade", "pending-rollback",
                                            "uninstalling", "deployed"})

Failed ==
    /\ release # NoRelease
    /\ \E now \in Now :
          ReleaseReturn(release, "Failed", "", now,
                        release.status \in {"failed", "unknown", "pending-install",
                                            "pending-upgrade", "pending-rollback",
                                            "uninstalling"})

(***************************************************************************)
(* The actions of package action, called by goroutines of one process.     *)
(***************************************************************************)
NoAct == [name |-> "none", pc |-> "idle", key |-> "", envBefore |-> ""]

\* The process starts without WERF_SECRET_KEY; NewLogboekLogger sets the level
\* to InfoLevel.
InitAction ==
    /\ actionLock = "free"
    /\ env = ""
    /\ logLevel = "info"
    /\ act = [t \in Threads |-> NoAct]

\* SecretFileEdit up to its SetLevel: actionLock.Lock(), which waits for the
\* lock to be free, then log.Default.SetLevel of opts.LogLevel or of the
\* default.
SecretFileEditBegin(t, optsLogLevel, optsSecretKey) ==
    /\ act[t].pc = "idle"
    /\ actionLock = "free"
    /\ actionLock' = t
    /\ logLevel' = IF optsLogLevel # "" THEN optsLogLevel ELSE "error"
    /\ act' = [act EXCEPT ![t] = [name |-> "SecretFileEdit", pc |-> "begun",
                                  key |-> optsSecretKey, envBefore |-> env]]
    /\ written' = written \cup {logLevel'}
    /\ UNCHANGED <<kubeVars, planVars, release, releaseCall, loggerVars, env>>

\* os.Getwd and applySecretFileEditOptionsDefaults: on an error of either the
\* action returns, and the deferred Unlock runs; otherwise os.Setenv of
\* opts.SecretKey when it is not empty.
SecretFileEditSetenv(t) ==
    /\ act[t].name = "SecretFileEdit" /\ act[t].pc = "begun"
    /\ \E ok \in BOOLEAN :
          IF ok
          THEN /\ env' = IF act[t].key # "" THEN act[t].key ELSE env
               /\ act' = [act EXCEPT ![t].pc = "env"]
               /\ UNCHANGED actionLock
          ELSE /\ act' = [act EXCEPT ![t] = NoAct]
               /\ actionLock' = "free"
               /\ UNCHANGED env
    /\ UNCHANGED <<kubeVars, planVars, release, releaseCall, loggerVars, written,
                   logLevel>>

\* secret.SecretEdit, which reads WERF_SECRET_KEY, then the return with its
\* error or with nil, and the deferred Unlock.
SecretFileEditReturn(t) ==
    /\ act[t].name = "SecretFileEdit" /\ act[t].pc = "env"
    /\ act' = [act EXCEPT ![t] = NoAct]
    /\ actionLock' = "free"
    /\ UNCHANGED <<kubeVars, planVars, release, releaseCall, loggerVars, written, env,
                   logLevel>>

\* SecretKeyCreate up to its SetLevel.
SecretKeyCreateBegin(t, optsLogLevel) ==
    /\ act[t].pc = "idle"
    /\ logLevel' = IF optsLogLevel # "" THEN optsLogLevel ELSE "error"
    /\ act' = [act EXCEPT ![t] = [name |-> "SecretKeyCreate", pc |-> "begun",
                                  key |-> "", envBefore |-> env]]
    /\ written' = written \cup {logLevel'}
    /\ UNCHANGED <<kubeVars, planVars, release, releaseCall, loggerVars, actionLock,
                   env>>

\* The rest of SecretKeyCreate: the defaults, the key, the return.
SecretKeyCreateReturn(t) ==
    /\ act[t].name = "SecretKeyCreate" /\ act[t].pc = "begun"
    /\ act' = [act EXCEPT ![t] = NoAct]
    /\ UNCHANGED <<kubeVars, planVars, release, releaseCall, loggerVars, written,
                   actionLock, env, logLevel>>

(***************************************************************************)
(* LogboekLogger (pkg/log/logboek_logger.go): five stashes, one a level,   *)
(* each a map from group to the messages pushed, each under its own lock   *)
(* (util.Concurrent), and the level under a lock of its own.  Messages are *)
(* numbered in the order they enter a stash.                               *)
(***************************************************************************)
\* log.Levels, from the quietest to the most verbose.
Levels == <<"silent", "error", "warning", "info", "debug", "trace">>

NoLog == [op |-> "none", pc |-> "idle", lvl |-> "", group |-> "", msgs |-> <<>>]

\* An AcceptLevel that accepts the more verbose levels.
AcceptLevelBelow(currentLvl, lvl) ==
    LET Index(l) == IF \E i \in 1..Len(Levels) : Levels[i] = l
                    THEN CHOOSE i \in 1..Len(Levels) : Levels[i] = l
                    ELSE 0
    IN  Index(currentLvl) <= Index(lvl)

\* l.AcceptLevel(ctx, lvl), the level being currentLvl: slices.Index is the
\* place in Levels, below every place for a level that is not in Levels.
AcceptLevel(currentLvl, lvl) ==
    LET Index(l) == IF \E i \in 1..Len(Levels) : Levels[i] = l
                    THEN CHOOSE i \in 1..Len(Levels) : Levels[i] = l
                    ELSE 0
    IN  Index(currentLvl) >= Index(lvl)

\* NewLogboekLogger: empty stashes, the level InfoLevel (logLevel).
InitLogger ==
    /\ stash = [l \in {"trace", "debug", "info", "warning", "error"} |->
                  [g \in {"g"} |-> <<>>]]
    /\ stashLock = [l \in {"trace", "debug", "info", "warning", "error"} |-> "free"]
    /\ levelLock = "free"
    /\ lg = [t \in Threads |-> NoLog]
    /\ pushed = <<>>
    /\ handled = <<>>
    /\ emitted = <<>>
    /\ written = {}
    /\ levelRet = ""

\* A goroutine calls TracePush, DebugPush, InfoPush, WarnPush or ErrorPush
\* (lvl) with a group and a message.
Push(t, lvl, group) ==
    /\ lg[t].pc = "idle"
    /\ Len(pushed) + Cardinality({u \in Threads : lg[u].op = "Push"}) < MaxMsgs
    /\ lg' = [lg EXCEPT ![t] = [op |-> "Push", pc |-> "waiting", lvl |-> lvl,
                                group |-> group, msgs |-> <<>>]]
    /\ UNCHANGED <<kubeVars, planVars, release, releaseCall, actionLock, env, act,
                   logLevel, stash, stashLock, levelLock, pushed, handled, emitted,
                   written, levelRet>>

\* A goroutine calls TracePop, DebugPop, InfoPop, WarnPop or ErrorPop (lvl)
\* with a group.
Pop(t, lvl, group) ==
    /\ lg[t].pc = "idle"
    /\ lg' = [lg EXCEPT ![t] = [op |-> "Pop", pc |-> "waiting", lvl |-> lvl,
                                group |-> group, msgs |-> <<>>]]
    /\ UNCHANGED <<kubeVars, planVars, release, releaseCall, actionLock, env, act,
                   logLevel, stash, stashLock, levelLock, pushed, handled, emitted,
                   written, levelRet>>

\* An RWTransaction that does not wait for the stash's lock.
StashLockNoWait(t) ==
    /\ lg[t].pc = "waiting" /\ lg[t].op \in {"Push", "Pop"}
    /\ stashLock' = [stashLock EXCEPT ![lg[t].lvl] = t]
    /\ lg' = [lg EXCEPT ![t].pc = "locked",
                        ![t].msgs = IF lg[t].op = "Pop"
                                    THEN stash[lg[t].lvl][lg[t].group] ELSE <<>>]
    /\ UNCHANGED <<kubeVars, planVars, release, releaseCall, actionLock, env, act,
                   logLevel, stash, levelLock, pushed, handled, emitted, written,
                   levelRet>>

\* RWTransaction of the stash of the call's level takes the stash's lock; a
\* Pop then starts its loop, range stash[group], over the messages the group
\* holds now.
StashLock(t) ==
    /\ lg[t].pc = "waiting" /\ lg[t].op \in {"Push", "Pop"}
    /\ stashLock[lg[t].lvl] = "free"
    /\ stashLock' = [stashLock EXCEPT ![lg[t].lvl] = t]
    /\ lg' = [lg EXCEPT ![t].pc = "locked",
                        ![t].msgs = IF lg[t].op = "Pop"
                                    THEN stash[lg[t].lvl][lg[t].group] ELSE <<>>]
    /\ UNCHANGED <<kubeVars, planVars, release, releaseCall, actionLock, env, act,
                   logLevel, stash, levelLock, pushed, handled, emitted, written,
                   levelRet>>

\* Push under the lock: stash[group] = append(stash[group], message), then
\* the lock is released and the call returns.
PushAppend(t) ==
    /\ lg[t].pc = "locked" /\ lg[t].op = "Push"
    /\ stash' = [stash EXCEPT ![lg[t].lvl][lg[t].group] = Append(@, Len(pushed) + 1)]
    /\ pushed' = Append(pushed, [lvl |-> lg[t].lvl, group |-> lg[t].group,
                                 at |-> logLevel])
    /\ handled' = Append(handled, 0)
    /\ stashLock' = [stashLock EXCEPT ![lg[t].lvl] = "free"]
    /\ lg' = [lg EXCEPT ![t] = NoLog]
    /\ UNCHANGED <<kubeVars, planVars, release, releaseCall, actionLock, env, act,
                   logLevel, levelLock, emitted, written, levelRet>>

\* One turn of Pop's loop: l.Trace, l.Debug, l.Info, l.Warn or l.Error of the
\* next message, which reads the level under the level's lock (AcceptLevel)
\* and hands the message to logboek when the level accepts the call's level.
PopMsg(t) ==
    /\ lg[t].pc = "locked" /\ lg[t].op = "Pop" /\ lg[t].msgs # <<>>
    /\ levelLock = "free"
    /\ handled' = [handled EXCEPT ![Head(lg[t].msgs)] = @ + 1]
    /\ emitted' = IF AcceptLevel(logLevel, lg[t].lvl)
                  THEN Append(emitted, Head(lg[t].msgs)) ELSE emitted
    /\ lg' = [lg EXCEPT ![t].msgs = Tail(@)]
    /\ UNCHANGED <<kubeVars, planVars, release, releaseCall, actionLock, env, act,
                   logLevel, stash, stashLock, levelLock, pushed, written, levelRet>>

\* An end of Pop that leaves the group in the stash.
PopKeep(t) ==
    /\ lg[t].pc = "locked" /\ lg[t].op = "Pop" /\ lg[t].msgs = <<>>
    /\ stashLock' = [stashLock EXCEPT ![lg[t].lvl] = "free"]
    /\ lg' = [lg EXCEPT ![t] = NoLog]
    /\ UNCHANGED <<kubeVars, planVars, release, releaseCall, actionLock, env, act,
                   logLevel, stash, levelLock, pushed, handled, emitted, written,
                   levelRet>>

\* The end of Pop: delete(stash, group), then the lock is released and the
\* call returns.
PopDelete(t) ==
    /\ lg[t].pc = "locked" /\ lg[t].op = "Pop" /\ lg[t].msgs = <<>>
    /\ stash' = [stash EXCEPT ![lg[t].lvl][lg[t].group] = <<>>]
    /\ stashLock' = [stashLock EXCEPT ![lg[t].lvl] = "free"]
    /\ lg' = [lg EXCEPT ![t] = NoLog]
    /\ UNCHANGED <<kubeVars, planVars, release, releaseCall, actionLock, env, act,
                   logLevel, levelLock, pushed, handled, emitted, written, levelRet>>

\* A goroutine calls SetLevel(lvl): the switch sets logboek's accepted level
\* or mutes its streams; a level that is none of Levels panics there.
SetLevel(t, lvl) ==
    /\ lg[t].pc = "idle"
    /\ \E i \in 1..Len(Levels) : Levels[i] = lvl
    /\ lg' = [lg EXCEPT ![t] = [op |-> "SetLevel", pc |-> "waiting", lvl |-> lvl,
                                group |-> "", msgs |-> <<>>]]
    /\ UNCHANGED <<kubeVars, planVars, release, releaseCall, actionLock, env, act,
                   logLevel, stash, stashLock, levelLock, pushed, handled, emitted,
                   written, levelRet>>

\* l.level.RWTransaction of SetLevel takes the level's lock.
LevelLock(t) ==
    /\ lg[t].pc = "waiting" /\ lg[t].op = "SetLevel"
    /\ levelLock = "free"
    /\ levelLock' = t
    /\ lg' = [lg EXCEPT ![t].pc = "locked"]
    /\ UNCHANGED <<kubeVars, planVars, release, releaseCall, actionLock, env, act,
                   logLevel, stash, stashLock, pushed, handled, emitted, written,
                   levelRet>>

\* A SetLevel that returns with the level's lock held.
SetLevelWriteLocked(t) ==
    /\ lg[t].pc = "locked" /\ lg[t].op = "SetLevel"
    /\ logLevel' = lg[t].lvl
    /\ written' = written \cup {lg[t].lvl}
    /\ lg' = [lg EXCEPT ![t] = NoLog]
    /\ UNCHANGED <<kubeVars, planVars, release, releaseCall, actionLock, env, act,
                   stash, stashLock, levelLock, pushed, handled, emitted, levelRet>>

\* SetLevel under the lock: *lv = lvl, then the lock is released and the call
\* returns.
SetLevelWrite(t) ==
    /\ lg[t].pc = "locked" /\ lg[t].op = "SetLevel"
    /\ logLevel' = lg[t].lvl
    /\ written' = written \cup {lg[t].lvl}
    /\ levelLock' = "free"
    /\ lg' = [lg EXCEPT ![t] = NoLog]
    /\ UNCHANGED <<kubeVars, planVars, release, releaseCall, actionLock, env, act,
                   stash, stashLock, pushed, handled, emitted, levelRet>>

\* A goroutine calls Level.
Level(t) ==
    /\ lg[t].pc = "idle"
    /\ lg' = [lg EXCEPT ![t] = [op |-> "Level", pc |-> "waiting", lvl |-> "",
                                group |-> "", msgs |-> <<>>]]
    /\ UNCHANGED <<kubeVars, planVars, release, releaseCall, actionLock, env, act,
                   logLevel, stash, stashLock, levelLock, pushed, handled, emitted,
                   written, levelRet>>

\* l.level.RTransaction of Level: the level is read while no SetLevel holds
\* the level's lock, and returned.
LevelRead(t) ==
    /\ lg[t].pc = "waiting" /\ lg[t].op = "Level"
    /\ levelLock = "free"
    /\ levelRet' = logLevel
    /\ lg' = [lg EXCEPT ![t] = NoLog]
    /\ UNCHANGED <<kubeVars, planVars, release, releaseCall, actionLock, env, act,
                   logLevel, stash, stashLock, levelLock, pushed, handled, emitted,
                   written>>

Init == InitKube /\ InitPlan /\ InitRelease /\ InitAction /\ InitLogger

(***************************************************************************)
(* Spec: goroutines calling the Kube Client facade.                        *)
(***************************************************************************)
Next ==
    \E t \in Threads :
        \/ Invoke(t)
        \/ Lock(t)
        \/ Get(t)
        \/ Create(t)
        \/ Apply(t)
        \/ MergePatch(t)
        \/ Delete(t)
        \/ CallerMutate(t)

Spec == Init /\ [][Next]_vars

(***************************************************************************)
(* SpecPlan: a caller building a Plan.                                     *)
(***************************************************************************)
NextPlan ==
    \/ \E id \in OpIDs : AddOperation(id)
    \/ \E id, stageInID, stageOutID \in OpIDs :
          AddStagedOperation(id, stageInID, stageOutID)
    \/ \E id, stageInID \in OpIDs : AddInStagedOperation(id, stageInID)
    \/ \E id, stageOutID \in OpIDs : AddOutStagedOperation(id, stageOutID)
    \/ \E fromOpID, toOpID \in OpIDs : AddDependency(fromOpID, toOpID)
    \/ Optimize

SpecPlan == Init /\ [][NextPlan]_vars

(***************************************************************************)
(* SpecExec: a Plan is built of operations staged in stage/1 -> stage/2    *)
(* and in stage/2 -> stage/3, optimized or not, and then run.              *)
(***************************************************************************)
NextExec ==
    \/ /\ started = {}
       /\ \E id \in ExecOpIDs, st \in Stages : AddStagedOperation(id, st[1], st[2])
    \/ /\ started = {}
       /\ Optimize
    \/ \E id \in PlanIDs : Start(id)
    \/ \E id \in PlanIDs : Execute(id)

SpecExec == Init /\ [][NextExec]_vars

\* The executor goes on as long as an operation is ready or running.
SpecExecFair ==
    /\ SpecExec
    /\ WF_vars(\E id \in PlanIDs : Start(id))
    /\ WF_vars(\E id \in PlanIDs : Execute(id))

(***************************************************************************)
(* SpecApply: a Plan is built of the apply operations of resources, by     *)
(* their ID().                                                             *)
(***************************************************************************)
NextApply ==
    \/ \E extraPost \in BOOLEAN, resource \in ResourceIDs :
          AddApplyOperation(extraPost, resource)
    \/ \E fromExtraPost, toExtraPost \in BOOLEAN, from, to \in ResourceIDs :
          AddDependency(ID(fromExtraPost, from), ID(toExtraPost, to))

SpecApply == Init /\ [][NextApply]_vars

(***************************************************************************)
(* SpecRelease: a Release is built and its methods are called, in any      *)
(* order.                                                                  *)
(***************************************************************************)
NextRelease ==
    \/ \E name \in {"r1", "r2"}, revision \in 1..2,
          generalResources \in {<<>>, <<2, 1>>}, notes \in {"", "n  "},
          optsStatus \in ReleaseStatuses \cup {""}, first, last \in 0..MaxTime :
          NewRelease(name, revision, generalResources, notes, optsStatus, first, last)
    \/ \E deployType \in DeployTypes : Pend(deployType)
    \/ Fail
    \/ Supersede
    \/ Succeed
    \/ Skip
    \/ Succeeded
    \/ Failed

SpecRelease == Init /\ [][NextRelease]_vars

(***************************************************************************)
(* SpecAction: goroutines of one process call SecretFileEdit and           *)
(* SecretKeyCreate.                                                        *)
(***************************************************************************)
NextAction ==
    \E t \in Threads :
        \/ \E optsLogLevel \in {"", "debug"}, optsSecretKey \in {"", "k1", "k2"} :
              SecretFileEditBegin(t, optsLogLevel, optsSecretKey)
        \/ SecretFileEditSetenv(t)
        \/ SecretFileEditReturn(t)
        \/ \E optsLogLevel \in {"", "debug"} : SecretKeyCreateBegin(t, optsLogLevel)
        \/ SecretKeyCreateReturn(t)

SpecAction == Init /\ [][NextAction]_vars

(***************************************************************************)
(* SpecLogger: goroutines push into, pop from the logger's stashes, set    *)
(* and read its level.                                                     *)
(***************************************************************************)
NextLogger ==
    \E t \in Threads :
        \/ \E lvl \in {"debug", "info"} : Push(t, lvl, "g")
        \/ \E lvl \in {"debug", "info"} : Pop(t, lvl, "g")
        \/ StashLock(t)
        \/ PushAppend(t)
        \/ PopMsg(t)
        \/ PopDelete(t)
        \/ \E lvl \in {"info", "debug"} : SetLevel(t, lvl)
        \/ LevelLock(t)
        \/ SetLevelWrite(t)
        \/ Level(t)
        \/ LevelRead(t)

SpecLogger == Init /\ [][NextLogger]_vars

(***************************************************************************)
(* SpecQuery: a Plan is made of operations of several kinds, some of them  *)
(* are run, and the Plan is queried.                                       *)
(***************************************************************************)
NextQuery ==
    \/ \E id \in QueryIDs : \E empty \in EmptyAnswers(Type[id]) :
          AddNewOperation(id, empty)
    \/ \E id \in QueryIDs : Start(id)
    \/ \E id \in QueryIDs : Execute(id)
    \/ Useless
    \/ CompletedOperations
    \/ FailedOperations
    \/ CanceledOperations
    \/ WorthyCompletedOperations
    \/ WorthyFailedOperations
    \/ WorthyCanceledOperations

SpecQuery == Init /\ [][NextQuery]_vars

(***************************************************************************)
(* Properties of the Kube Client facade, checked under Spec.               *)
(***************************************************************************)
MutatingOps == {"Create", "Apply", "MergePatch", "Delete"}

\* The call that returned in the last step changed the cluster, or tried to.
IsMutation(c) == c.op \in MutatingOps /\ ~(c.op = "Apply" /\ c.opt)

\* The step is the return of a call (of the call returned').
Returning == returned' # NoReturn

\* C1: two facade calls on the same VersionID never overlap: a goroutine
\* that is inside a call holds the mutex of the call's resource, from
\* lock.Lock() to the return, so no two goroutines are inside calls on one
\* VersionID.
C1Serialised ==
    /\ \A t \in Threads : pc[t] = "locked" => resourceLocks[call[t].vid] = t
    /\ \A t1, t2 \in Threads :
          t1 # t2 /\ pc[t1] = "locked" /\ pc[t2] = "locked"
              => call[t1].vid # call[t2].vid

\* Two calls were issued on one VersionID: one is inside, the other waits.
C1Witness ==
    \E t1, t2 \in Threads :
        /\ pc[t1] = "locked" /\ pc[t2] = "waiting"
        /\ call[t1].vid = call[t2].vid
        /\ call[t1].op = "Apply" /\ call[t2].op = "Delete"

C3DeleteClearsCache ==
    returned.call.op = "Delete" /\ returned.rpc \in {NoErr, ErrNotFound}
        => /\ returned.ret.err = NoErr
           /\ clusterCache[returned.call.vid] = NoEntry

\* The calls that write the cache entry of their resource whatever it held.
WritesCache(c) == (c.op = "Get" /\ ~c.opt) \/ IsMutation(c)

\* C4, as stated: a Get(TryCache=true) that finds an entry returns it, error
\* or object, without RPC; and a cached NotFound stays until a mutating call
\* on the resource replaces or removes it.
C4NotFoundUntilMutation ==
    [][/\ Returning /\ returned'.call.op = "Get" /\ returned'.call.opt
             /\ clusterCache[returned'.call.vid] # NoEntry
          => /\ returned'.rpc = "none"
             /\ returned'.ret = CacheHit(clusterCache[returned'.call.vid])
             /\ clusterCache' = clusterCache
       /\ \A vid \in VersionIDs :
             clusterCache[vid] = ErrEntry(ErrNotFound)
                 /\ clusterCache'[vid] # clusterCache[vid]
             => Returning /\ returned'.call.vid = vid /\ IsMutation(returned'.call)
      ]_vars

\* C4, amended: a Get(TryCache=true) that finds an entry returns it, error or
\* object, without RPC and without changing the cache; and a cached NotFound
\* stays until a call on the resource that makes its RPC (a Get without
\* TryCache, or a mutating call) replaces or removes it.
C4CachedReads ==
    [][/\ Returning /\ returned'.call.op = "Get" /\ returned'.call.opt
             /\ clusterCache[returned'.call.vid] # NoEntry
          => /\ returned'.rpc = "none"
             /\ returned'.ret = CacheHit(clusterCache[returned'.call.vid])
             /\ clusterCache' = clusterCache
       /\ \A vid \in VersionIDs :
             clusterCache[vid] = ErrEntry(ErrNotFound)
                 /\ clusterCache'[vid] # clusterCache[vid]
             => /\ Returning /\ returned'.call.vid = vid
                /\ WritesCache(returned'.call) /\ returned'.rpc # "none"
      ]_vars

\* A Get(TryCache=true) has returned the cached NotFound, without RPC.
C4Witness ==
    /\ returned.call.op = "Get" /\ returned.call.opt
    /\ returned.rpc = "none"
    /\ returned.ret.err = ErrNotFound
    /\ clusterCache[returned.call.vid] = ErrEntry(ErrNotFound)

\* C5: what the cache holds for a resource changes only when a call on that
\* resource replaces or removes the entry; no change a caller makes to an
\* object a call returned changes it.
C5CallersMayMutate ==
    [][\A vid \in VersionIDs :
          clusterCache'[vid] # clusterCache[vid]
              => Returning /\ returned'.call.vid = vid /\ returned'.rpc # "none"
      ]_vars

\* C6: MergePatch returns (nil, nil) when the cluster answers NotFound, and
\* when it has returned after asking the cluster, the cache entry of the
\* resource reflects its result: the error it returned, the object it
\* returned, and no object when it returned none.
C6CacheReflectsResult ==
    returned.call.op = "MergePatch" /\ returned.rpc # "none"
        => LET e == clusterCache[returned.call.vid]
           IN  /\ returned.rpc = ErrNotFound => returned.ret = NoRet
               /\ returned.ret.err # NoErr => e = ErrEntry(returned.ret.err)
               /\ returned.ret.val # 0 => e = ObjEntry(returned.ret.val)
               /\ returned.ret = NoRet => e.val = 0

\* C7: a dry-run Apply, whether it succeeds or fails, leaves the cache and
\* the count of mapper resets as they were.
C7DryRunApply ==
    [][Returning /\ returned'.call.op = "Apply" /\ returned'.call.opt
          => clusterCache' = clusterCache /\ mapperResets' = mapperResets
      ]_vars

\* A dry-run Apply of a CRD has succeeded, with an object that is not the one
\* the cache holds for the resource.
C7Witness ==
    /\ returned.call.op = "Apply" /\ returned.call.opt
    /\ IsCRDFromGR(returned.call.vid)
    /\ returned.rpc = NoErr
    /\ clusterCache[returned.call.vid] # NoEntry
    /\ clusterCache[returned.call.vid].val # returned.ret.val

\* C8: the mapper is reset, once, exactly by the return of a Create or a
\* non-dry-run Apply whose RPC succeeded on a resource that is a CRD.
C8MapperReset ==
    [][LET crdInstalled ==
               /\ Returning
               /\ returned'.call.op \in {"Create", "Apply"}
               /\ IsMutation(returned'.call)
               /\ returned'.rpc = NoErr
               /\ IsCRDFromGR(returned'.call.vid)
       IN  /\ crdInstalled => mapperResets' = mapperResets + 1
           /\ ~crdInstalled => mapperResets' = mapperResets
      ]_vars

\* A Create of a CRD has succeeded after a Create of another resource did.
C8Witness ==
    /\ returned.call.op = "Create"
    /\ IsCRDFromGR(returned.call.vid)
    /\ returned.rpc = NoErr
    /\ mapperResets = 1
    /\ \E vid \in VersionIDs : ~IsCRDFromGR(vid) /\ clusterCache[vid].val # 0

\* C9: Get, Create and Apply return the error of their RPC whenever it
\* fails, NotFound included; MergePatch and Delete return nil when their RPC
\* fails with NotFound.
C9NotFoundDowngrade ==
    /\ returned.call.op \in {"Get", "Create", "Apply"} /\ returned.rpc \in {ErrNotFound, ErrOther}
          => returned.ret.err = returned.rpc
    /\ returned.call.op \in {"MergePatch", "Delete"} /\ returned.rpc = ErrNotFound
          => returned.ret.err = NoErr

\* An Apply has failed with NotFound and returned it.
C9Witness ==
    /\ returned.call.op = "Apply" /\ ~returned.call.opt
    /\ returned.rpc = ErrNotFound
    /\ returned.ret.err = ErrNotFound

(***************************************************************************)
(* Properties of the Plan graph, checked under SpecPlan.                   *)
(***************************************************************************)
\* Some vertices p[1] -> p[2] -> ... -> p[n] -> p[1] are joined by edges of E.
HasCycle(E) ==
    \E n \in 1..Cardinality(OpIDs) : \E p \in [1..n -> OpIDs] :
        /\ \A i \in 1..(n - 1) : <<p[i], p[i + 1]>> \in E
        /\ <<p[n], p[1]>> \in E

\* C10: whatever AddOperation, AddStagedOperation, AddInStagedOperation,
\* AddOutStagedOperation and AddDependency calls were made, the graph has no
\* cycle (and its edges join vertices of the graph).
C10Acyclic ==
    /\ ~HasCycle(graphE)
    /\ \A e \in graphE : graphV[e[1]] # NoOp /\ graphV[e[2]] # NoOp

\* AddDependency has refused an edge that would have closed a cycle of three.
C10Witness ==
    /\ planCall.name = "AddDependency"
    /\ planErr = ErrEdgeCreatesCycle
    /\ planCall.args[1] # planCall.args[2]
    /\ <<planCall.args[2], planCall.args[1]>> \notin graphE

\* The pairs <<u, v>> with a path of one edge or more from u to v along E.
RECURSIVE TransitiveClosure(_)
TransitiveClosure(E) ==
    LET E2 == E \cup {<<p[1][1], p[2][2]>> : p \in {q \in E \X E : q[1][2] = q[2][1]}}
    IN  IF E2 = E THEN E ELSE TransitiveClosure(E2)

\* The step changes neither the vertices nor the edges of the graph.
GraphUnchanged == graphV' = graphV /\ graphE' = graphE

\* C11: AddDependency(a, b), when b already reaches a or a = b, returns an
\* error and leaves the vertices and the edges of the graph as they were.
C11CycleRefused ==
    [][/\ planCall'.name = "AddDependency"
       /\ \/ planCall'.args[1] = planCall'.args[2]
          \/ <<planCall'.args[2], planCall'.args[1]>> \in TransitiveClosure(graphE)
       => planErr' \notin {"nil", "panic"} /\ GraphUnchanged
      ]_vars

\* AddDependency(a, a) on a vertex of a graph with edges was refused.
C11Witness ==
    /\ planCall.name = "AddDependency"
    /\ planCall.args[1] = planCall.args[2]
    /\ graphV[planCall.args[1]] # NoOp
    /\ planErr = ErrEdgeCreatesCycle
    /\ graphE # {}

\* C12: AddDependency(a, b), when the edge a -> b is in the graph, returns
\* nil and leaves the graph as it was.
C12DuplicateEdge ==
    [][/\ planCall'.name = "AddDependency"
       /\ <<planCall'.args[1], planCall'.args[2]>> \in graphE
       => planErr' = "nil" /\ GraphUnchanged
      ]_vars

\* AddDependency returned nil without changing the graph: the edge was there.
C12Witness ==
    /\ planCall.name = "AddDependency"
    /\ planErr = "nil"
    /\ ~planCall.changed
    /\ <<planCall.args[1], planCall.args[2]>> \in graphE

\* C13: AddOperation of an operation whose ID is a vertex does not fail and
\* leaves the vertices, the operation stored under the ID and the edges as
\* they were.
C13AddOperationIdempotent ==
    [][/\ planCall'.name = "AddOperation"
       /\ graphV[planCall'.args[1]] # NoOp
       => planErr' = "nil" /\ GraphUnchanged
      ]_vars

\* AddOperation was called with the ID of a stage marker that has an edge.
C13Witness ==
    /\ planCall.name = "AddOperation"
    /\ planErr = "nil"
    /\ ~planCall.changed
    /\ graphV[planCall.args[1]] = "stage"
    /\ \E e \in graphE : planCall.args[1] \in {e[1], e[2]}

\* C14: when AddStagedOperation(op, in, out) returns, the graph holds op, a
\* vertex under in and one under out (a stage marker each when it was
\* missing, the vertex that was there otherwise), the edges in -> op,
\* op -> out and in -> out, and all it held before.
C14StagedOperation ==
    [][planCall'.name = "AddStagedOperation" /\ planErr' = "nil"
          => LET id == planCall'.args[1]
                 stageInID == planCall'.args[2]
                 stageOutID == planCall'.args[3]
             IN  /\ graphV'[id] = IF graphV[id] = NoOp THEN "op" ELSE graphV[id]
                 /\ \A m \in {stageInID, stageOutID} :
                       graphV'[m] = IF graphV[m] = NoOp THEN "stage" ELSE graphV[m]
                 /\ \A v \in PlanIDs \ {id, stageInID, stageOutID} :
                       graphV'[v] = graphV[v]
                 /\ graphE' = graphE \cup {<<stageInID, id>>, <<id, stageOutID>>,
                                          <<stageInID, stageOutID>>}
      ]_vars

\* AddStagedOperation returned after it had created the two markers.
C14Witness ==
    /\ planCall.name = "AddStagedOperation"
    /\ planErr = "nil"
    /\ planCall.changed
    /\ graphV[planCall.args[1]] = "op"
    /\ graphV[planCall.args[2]] = "stage"
    /\ graphV[planCall.args[3]] = "stage"
    /\ Cardinality(graphE) = 3

\* C15: Optimize returns nil, leaves the vertices as they were, leaves v
\* reachable from u exactly when it was before, and leaves the graph acyclic.
C15OptimizePreserves ==
    [][planCall'.name = "Optimize"
          => /\ planErr' = "nil"
             /\ graphV' = graphV
             /\ TransitiveClosure(graphE') = TransitiveClosure(graphE)
             /\ \A e \in TransitiveClosure(graphE') : e[1] # e[2]
      ]_vars

\* Optimize removed an edge.
C15Witness ==
    /\ planCall.name = "Optimize"
    /\ planErr = "nil"
    /\ planCall.changed
    /\ Cardinality(graphE) = 2

\* C16: after any plan-building and Optimize calls, every operation added by
\* an AddStagedOperation(op, in, out) that returned is reached from in and
\* reaches out, and the vertex stored under an ID is never replaced, so there
\* is one marker of a given name.
C16StagedOnPath ==
    [][/\ \A t \in staged' :
             /\ <<t[2], t[1]>> \in TransitiveClosure(graphE')
             /\ <<t[1], t[3]>> \in TransitiveClosure(graphE')
       /\ \A id \in PlanIDs : graphV[id] # NoOp => graphV'[id] = graphV[id]
      ]_vars

\* Optimize removed the spanning edge of a staged operation.
C16Witness ==
    /\ planCall.name = "Optimize"
    /\ planCall.changed
    /\ \E t \in staged : <<t[2], t[3]>> \notin graphE

(***************************************************************************)
(* Properties of a run of the Plan, checked under SpecExec.                *)
(***************************************************************************)
Terminal == {StatusCompleted, StatusFailed}

\* The out-marker of the stage of t1 is, or reaches, the in-marker of the
\* stage of t2.
StageBefore(t1, t2) ==
    t1[3] = t2[2] \/ <<t1[3], t2[2]>> \in TransitiveClosure(graphE)

\* C17: under an executor that starts an operation only when all its
\* predecessors are completed, an operation staged in S2 is started only when
\* every operation staged in a stage S1 before S2 has reached a terminal
\* status.
C17StageBarrier ==
    \A t1, t2 \in staged :
        StageBefore(t1, t2) /\ t2[1] \in started => opStatus[t1[1]] \in Terminal

\* The operation of the second stage was started, after that of the first
\* stage completed, in an optimized plan.
C17Witness ==
    /\ staged = {<<"apply/x", "stage/1", "stage/2">>, <<"apply/y", "stage/2", "stage/3">>}
    /\ "apply/y" \in started
    /\ opStatus["apply/x"] = StatusCompleted
    /\ <<"stage/1", "stage/2">> \notin graphE

(***************************************************************************)
(* Properties of the queries of the Plan, checked under SpecQuery.         *)
(***************************************************************************)
\* The kinds that change a resource, and their extra-post counterparts.
BaseMutatingTypes == {"create", "recreate", "update", "apply", "delete"}
ResourceMutatingTypes ==
    BaseMutatingTypes \cup {"extra-post-create", "extra-post-recreate",
                            "extra-post-apply", "extra-post-update",
                            "extra-post-delete"}

\* The kinds of the operations on a resource (ID type/resource-id): those
\* that change it and those that track it.
ResourceOperationTypes ==
    ResourceMutatingTypes \cup {"track-readiness", "track-presence", "track-absence"}

\* No operation of the plan whose kind is in types answers Empty() = false.
NoneNonEmpty(types) ==
    \A id \in PlanOperations(graphV) : Type[id] \in types => opEmpty[id]

\* C18, as stated: Useless() is true iff no operation on a resource (one that
\* changes it or tracks it) has Empty() = false.
C18UselessByResourceOperations ==
    query.name = "Useless"
        => query.useless = NoneNonEmpty(ResourceOperationTypes)

\* C18, amended: Useless() is true iff no operation that changes a resource,
\* tracks a resource or fails the release has Empty() = false; so it is true
\* of an empty plan and of a plan of stage markers and trackers that are
\* Empty().
C18Useless ==
    query.name = "Useless"
        => query.useless = NoneNonEmpty(ResourceOperationTypes \cup {"fail-release"})

\* Useless() answered true for a plan of a stage marker and a tracker.
C18Witness ==
    /\ query.name = "Useless"
    /\ query.useless
    /\ PlanOperations(graphV) = {"stage/1", "track-absence/x"}

\* C19: a plan of a re-run, which holds nothing but stage markers and apply
\* operations of resources the cluster already matches, reports
\* Useless() = true.
C19RerunUseless ==
    query.name = "Useless" /\ PlanOperations(graphV) \subseteq {"stage/1", "apply/x"}
        => query.useless

\* C20: each Worthy query returns operations of resource-mutating kinds only,
\* never a stage marker, a tracker or a release operation, and the three of
\* them keep the operations of one and the same set of kinds.
C20WorthyKinds ==
    /\ query.name \in {"WorthyCompletedOperations", "WorthyFailedOperations",
                       "WorthyCanceledOperations"}
          => \A id \in query.ops : Type[id] \in ResourceMutatingTypes
    /\ \E K \in {BaseMutatingTypes, ResourceMutatingTypes} :
          /\ PlanWorthyCompletedOperations(graphV, opStatus) =
                {id \in PlanCompletedOperations(graphV, opStatus) : Type[id] \in K}
          /\ PlanWorthyFailedOperations(graphV, opStatus) =
                {id \in PlanFailedOperations(graphV, opStatus) : Type[id] \in K}
          /\ PlanWorthyCanceledOperations(graphV, opStatus) =
                {id \in PlanCanceledOperations(graphV, opStatus) : Type[id] \in K}

\* C21: at every point of a run the completed, the failed and the canceled
\* operations are pairwise disjoint and together they are the operations of
\* the plan; CanceledOperations returns exactly the operations whose status
\* is unknown.
C21Partition ==
    LET ops == {id \in DOMAIN graphV : graphV[id] # NoOp}
        completed == PlanCompletedOperations(graphV, opStatus)
        failed == PlanFailedOperations(graphV, opStatus)
        canceled == PlanCanceledOperations(graphV, opStatus)
    IN  /\ completed \cap failed = {}
        /\ completed \cap canceled = {}
        /\ failed \cap canceled = {}
        /\ completed \cup failed \cup canceled = ops
        /\ canceled = {id \in ops : opStatus[id] = StatusUnknown}
        /\ query.name = "CanceledOperations" => query.ops = canceled
        /\ query.name = "CompletedOperations" => query.ops = completed
        /\ query.name = "FailedOperations" => query.ops = failed

\* CanceledOperations answered in the middle of a run: one operation is
\* completed, one failed, one started and not finished, one never started.
C21Witness ==
    /\ query.name = "CanceledOperations"
    /\ query.ops = {"track-absence/x", "stage/1"}
    /\ opStatus["apply/x"] = StatusCompleted
    /\ opStatus["extra-post-apply/x"] = StatusFailed
    /\ "track-absence/x" \in started
    /\ "stage/1" \notin started

\* C22: Execute of an apply operation calls the Kube Client's Apply exactly
\* once, and when it returns the status of the operation is completed iff it
\* returned nil and failed iff it returned an error, never unknown.
C22ExecuteSetsStatus ==
    /\ executed.id # NoOp
    /\ Type[executed.id] \in {TypeApplyResourceOperation,
                              TypeExtraPostApplyResourceOperation}
    => /\ executed.applies = 1
       /\ opStatus[executed.id] = StatusCompleted <=> executed.err = NoErr
       /\ opStatus[executed.id] = StatusFailed <=> executed.err # NoErr
       /\ opStatus[executed.id] # StatusUnknown

\* Execute of an apply operation returned the NotFound error of its Apply and
\* left the operation failed.
C22Witness ==
    /\ executed.id = "apply/x"
    /\ executed.err = ErrNotFound
    /\ executed.applies = 1
    /\ opStatus["apply/x"] = StatusFailed

\* C23: every run of a plan that was built comes to an end where every
\* operation is completed or failed, but for those that were never started
\* because an operation had failed: only these are left unknown.
C23StatusClosure ==
    <>[](\/ planErr = "panic"
         \/ \A id \in PlanOperations(graphV) :
               \/ opStatus[id] \in Terminal
               \/ /\ opStatus[id] = StatusUnknown
                  /\ id \notin started
                  /\ \E f \in PlanOperations(graphV) : opStatus[f] = StatusFailed)

\* The end of a run where the operation of the first stage failed and that of
\* the second stage was never started.
C23Witness ==
    /\ staged = {<<"apply/x", "stage/1", "stage/2">>, <<"apply/y", "stage/2", "stage/3">>}
    /\ opStatus["apply/x"] = StatusFailed
    /\ opStatus["stage/1"] = StatusCompleted
    /\ opStatus["apply/y"] = StatusUnknown
    /\ started = {"stage/1", "apply/x"}

\* The part of an ID before its first "/".
IDPrefix(id) ==
    LET k == CHOOSE i \in 1..Len(id) :
                 /\ SubSeq(id, i, i) = "/"
                 /\ \A j \in 1..(i - 1) : SubSeq(id, j, j) # "/"
    IN  SubSeq(id, 1, k - 1)

\* C24: the apply operation and the extra-post apply operation of one
\* resource have different IDs, Type() is the part of ID() before the "/",
\* and adding one of them to a plan that holds the other makes a second
\* vertex; an apply operation of the kind and resource of one that is in the
\* plan has the ID of that one, and adding it changes nothing.
C24DistinctIDs ==
    [][\A extraPost \in BOOLEAN, resource \in ResourceIDs :
          /\ planCall'.name = "AddApplyOperation"
          /\ planCall'.args = <<OperationType(extraPost), resource>>
          => LET id == ID(extraPost, resource)
                 other == ID(~extraPost, resource)
             IN  /\ id # other
                 /\ IDPrefix(id) = OperationType(extraPost)
                 /\ Type[id] = OperationType(extraPost)
                 /\ \A e \in BOOLEAN, r \in ResourceIDs :
                       ID(e, r) = id <=> e = extraPost /\ r = resource
                 /\ PlanOperations(graphV') = PlanOperations(graphV) \cup {id}
                 /\ id \notin PlanOperations(graphV)
                       => Cardinality(PlanOperations(graphV')) =
                             Cardinality(PlanOperations(graphV)) + 1
                 /\ id \in PlanOperations(graphV)
                       => graphV' = graphV /\ graphE' = graphE]_vars

\* A plan holds the apply operation and the extra-post apply operation of x
\* as two vertices, and an apply operation of x was added once more: nothing
\* changed.
C24Witness ==
    /\ planCall.name = "AddApplyOperation"
    /\ planCall.args = <<"apply", "x">>
    /\ ~planCall.changed
    /\ PlanOperations(graphV) = {"apply/x", "extra-post-apply/x"}

(***************************************************************************)
(* Properties of the Release, checked under SpecRelease.                   *)
(***************************************************************************)
PendingStatuses == {"pending-install", "pending-upgrade", "pending-rollback"}

\* C25: whatever the sequence of Pend, Succeed, Fail, Supersede and Skip
\* calls, a release leaves unknown only for a pending status, leaves a pending
\* status only for deployed, failed or superseded, and never leaves another
\* status.
C25StateMachine ==
    [][release # NoRelease =>
          /\ release.status = "unknown"
                => release'.status \in {"unknown"} \cup PendingStatuses
          /\ release.status \in PendingStatuses
                => release'.status \in {release.status, "deployed", "failed", "superseded"}
          /\ release.status \notin {"unknown"} \cup PendingStatuses
                => release'.status = release.status]_vars

\* C26: the step that takes a release out of unknown sets firstDeployed, a
\* firstDeployed that is set is never changed, and every Pend, Succeed, Fail,
\* Supersede and Skip sets lastDeployed to the time of the call.
C26Timestamps ==
    [][release # NoRelease =>
          /\ release.status = "unknown" /\ release'.status # "unknown"
                => release'.firstDeployed # 0
          /\ release.firstDeployed # 0
                => release'.firstDeployed = release.firstDeployed
          /\ releaseCall'.name \in {"Pend", "Succeed", "Fail", "Supersede", "Skip"}
                => release'.lastDeployed = releaseCall'.at]_vars

\* C27: a release built without an explicit status is in unknown, and after
\* Pend(deployType) it is in pending-install for Initial and Install, in
\* pending-upgrade for Upgrade, in pending-rollback for Rollback and in
\* pending-install for any other deploy type: always in a pending status.
C27Pend ==
    /\ releaseCall.name = "NewRelease" /\ releaseCall.arg = ""
          => release.status = "unknown"
    /\ releaseCall.name = "Pend"
          => /\ release.status \in PendingStatuses
             /\ releaseCall.arg \in {"Initial", "Install"}
                   => release.status = "pending-install"
             /\ releaseCall.arg = "Upgrade" => release.status = "pending-upgrade"
             /\ releaseCall.arg = "Rollback" => release.status = "pending-rollback"
             /\ releaseCall.arg \notin {"Initial", "Install", "Upgrade", "Rollback"}
                   => release.status = "pending-install"

\* Pend(Upgrade) returned on a release that was deployed since an earlier time.
C27Witness ==
    /\ releaseCall.name = "Pend"
    /\ releaseCall.arg = "Upgrade"
    /\ release.status = "pending-upgrade"
    /\ release.firstDeployed < release.lastDeployed

\* C28: over all the statuses, Succeeded() is true exactly of deployed,
\* superseded and uninstalled, and Failed() is true exactly of failed, unknown,
\* the three pending statuses and uninstalling.
C28SucceededFailed ==
    /\ release # NoRelease => release.status \in ReleaseStatuses
    /\ releaseCall.name = "Succeeded"
          => (releaseCall.result
                <=> release.status \in {"deployed", "superseded", "uninstalled"})
    /\ releaseCall.name = "Failed"
          => (releaseCall.result
                <=> release.status \in {"failed", "unknown", "uninstalling"}
                                           \cup PendingStatuses)

\* Succeeded() answered false of a skipped release.
C28Witness ==
    /\ releaseCall.name = "Succeeded"
    /\ release.status = "skipped"
    /\ ~releaseCall.result

(***************************************************************************)
(* Properties of the actions, checked under SpecAction.                    *)
(***************************************************************************)
\* C29: a goroutine that is in SecretFileEdit or in SecretKeyCreate, which set
\* the level of the global logger (and the first the secret key of the
\* environment), holds actionLock until it returns, so no two goroutines are
\* in such actions at once.
C29ActionsSerialised ==
    /\ \A t \in Threads : act[t].pc # "idle" => actionLock = t
    /\ \A t1, t2 \in Threads :
          t1 # t2 => act[t1].pc = "idle" \/ act[t2].pc = "idle"

\* C30: when SecretFileEdit returns, with an error or without, WERF_SECRET_KEY
\* is what it was when the action was called; and a SecretFileEdit called with
\* an empty SecretKey runs its SecretEdit without a key in the environment,
\* not with the key of an earlier call.
C30KeyRestored ==
    [][\A t \in Threads :
          /\ act[t].name = "SecretFileEdit"
          /\ act'[t].pc = "idle"
          => /\ env' = act[t].envBefore
             /\ act[t].pc = "env" /\ act[t].key = "" => env = ""]_vars

\* C39: when Failed() is called right after Succeeded() on a release, of
\* whatever status, the two answers are never both true, and they are both
\* false only when the status is skipped.
C39Exclusive ==
    [][releaseCall.name = "Succeeded" /\ releaseCall'.name = "Failed"
          => /\ release' = release
             /\ ~(releaseCall.result /\ releaseCall'.result)
             /\ ~releaseCall.result /\ ~releaseCall'.result
                   <=> release.status = "skipped"]_vars

\* Failed() answered false of a release that Skip left skipped.
C39Witness ==
    /\ releaseCall.name = "Failed"
    /\ ~releaseCall.result
    /\ release.status = "skipped"
    /\ release.lastDeployed # 0

\* C34: no call on a release changes its name, namespace, revision, values,
\* notes or resource lists; Fail, Succeed, Supersede and Skip change nothing
\* but the status, and Pend nothing but the status, firstDeployed and
\* lastDeployed.
C34StatusOnly ==
    [][release # NoRelease =>
          /\ \A f \in {"name", "namespace", "revision", "values", "notes",
                        "hookResources", "generalResources"} : release'[f] = release[f]
          /\ releaseCall'.name \in {"Fail", "Succeed", "Supersede", "Skip"}
                => /\ release'.firstDeployed = release.firstDeployed
                   /\ release'.lastDeployed = release.lastDeployed]_vars

\* A release of two resources, with notes, was pended at one time and failed
\* at a later one: it has the timestamps Pend gave it.
C34Witness ==
    /\ releaseCall.name = "Fail"
    /\ release.status = "failed"
    /\ release.lastDeployed # 0
    /\ release.lastDeployed < releaseCall.at
    /\ release.generalResources = <<1, 2>>
    /\ release.notes = "n"

\* C36, as stated: an AddStagedOperation(op, in, out) with in = out, with
\* op.ID() equal to a marker ID, or with out reaching in, panics, and leaves
\* the graph changed, with the operation and the markers in it, and acyclic.
C36PanicChangesGraph ==
    [][/\ planErr # "panic"
       /\ planCall'.name = "AddStagedOperation"
       /\ LET id == planCall'.args[1]
              in == planCall'.args[2]
              out == planCall'.args[3]
          IN  \/ in = out
              \/ id \in {in, out}
              \/ <<out, in>> \in TransitiveClosure(graphE)
       => /\ planErr' = "panic"
          /\ \A v \in {planCall'.args[1], planCall'.args[2], planCall'.args[3]} :
                graphV'[v] # NoOp
          /\ ~HasCycle(graphE')
          /\ graphV' # graphV \/ graphE' # graphE]_vars

\* C36, amended: such an AddStagedOperation panics, and nothing of what it did
\* before is undone: the graph holds the operation and the two markers, all
\* the vertices and edges it held before, and no cycle; it is left as it was
\* only when the operation and both markers were in it already.
C36PanicKeepsInsertions ==
    [][/\ planErr # "panic"
       /\ planCall'.name = "AddStagedOperation"
       /\ LET id == planCall'.args[1]
              in == planCall'.args[2]
              out == planCall'.args[3]
          IN  \/ in = out
              \/ id \in {in, out}
              \/ <<out, in>> \in TransitiveClosure(graphE)
       => LET called == {planCall'.args[1], planCall'.args[2], planCall'.args[3]}
          IN  /\ planErr' = "panic"
              /\ \A v \in called : graphV'[v] # NoOp
              /\ \A v \in PlanIDs : graphV[v] # NoOp \/ v \notin called
                                        => graphV'[v] = graphV[v]
              /\ graphE \subseteq graphE'
              /\ ~HasCycle(graphE')
              /\ graphV' = graphV /\ graphE' = graphE
                    => \A v \in called : graphV[v] # NoOp]_vars

\* AddStagedOperation panicked at its last edge, after it had added the
\* operation and the edge from the in-marker to it.
C36Witness ==
    /\ planErr = "panic"
    /\ planCall.name = "AddStagedOperation"
    /\ planCall.changed
    /\ graphV[planCall.args[1]] = "op"
    /\ <<planCall.args[2], planCall.args[1]>> \in graphE
    /\ <<planCall.args[1], planCall.args[3]>> \notin graphE

\* C33: a facade call makes one RPC at most, and when it returns, on whatever
\* path, the mutex of its resource is free and the goroutine holds no mutex;
\* a mutex is held only by a goroutine that is inside its call on that
\* resource and can go on to its return, so a goroutine that waits for the
\* mutex is never blocked for ever.
C33LockReleased ==
    /\ [][returned' # NoReturn
            => /\ returned'.rpc \in {"none"} \cup RpcAnswers
               /\ resourceLocks'[returned'.call.vid] = "free"
               /\ \A t \in Threads :
                     pc'[t] \in {"idle", "waiting"}
                        => \A v \in VersionIDs : resourceLocks'[v] # t]_vars
    /\ [](\A v \in VersionIDs : \A u \in Threads :
              resourceLocks[v] = u
                 => /\ pc[u] = "locked"
                    /\ call[u].vid = v
                    /\ ENABLED (Get(u) \/ Create(u) \/ Apply(u)
                                   \/ MergePatch(u) \/ Delete(u)))

\* A Get answered from the cache has returned without RPC, its mutex is free
\* and another goroutine waits for the same mutex.
C33Witness ==
    /\ returned.call.op = "Get" /\ returned.rpc = "none"
    /\ returned.ret.err = NoErr
    /\ resourceLocks[returned.call.vid] = "free"
    /\ \E u \in Threads : pc[u] = "waiting" /\ call[u].vid = returned.call.vid

\* C35: a step of a facade call on one VersionID leaves the cache entry and
\* the mutex of every other VersionID as they were, and a goroutine holds no
\* mutex but that of the resource of its call.
C35OtherResourcesUntouched ==
    [][\A t \in Threads :
          pc'[t] # pc[t]
             => LET vid == IF pc[t] = "idle" THEN call'[t].vid ELSE call[t].vid
                IN  \A v \in VersionIDs \ {vid} :
                       /\ clusterCache'[v] = clusterCache[v]
                       /\ resourceLocks'[v] = resourceLocks[v]
                       /\ resourceLocks'[v] # t]_vars

\* A mutating call on one resource has returned and written its cache entry
\* while another goroutine is inside a call on another resource, which has a
\* cache entry.
C35Witness ==
    /\ returned.call.op \in {"Create", "Delete", "MergePatch"}
    /\ returned.rpc = NoErr
    /\ \E u \in Threads : \E v \in VersionIDs \ {returned.call.vid} :
          /\ pc[u] = "locked" /\ call[u].vid = v /\ resourceLocks[v] = u
          /\ clusterCache[v] # NoEntry

\* C31 as stated: no message is emitted but by a Pop taking it from its
\* group; when a Pop returns, every message of its group has been emitted,
\* the group is empty; the messages of a group are emitted in push order and
\* none twice.
C31PopEmitsAll ==
    /\ [][/\ emitted' # emitted
               => \E t \in Threads :
                     /\ lg[t].op = "Pop" /\ lg[t].pc = "locked"
                     /\ lg[t].msgs # <<>> /\ lg'[t].msgs = Tail(lg[t].msgs)
          /\ \A t \in Threads :
                 lg[t].op = "Pop" /\ lg[t].pc = "locked" /\ lg'[t].pc = "idle"
                    => /\ stash'[lg[t].lvl][lg[t].group] = <<>>
                       /\ \A k \in 1..Len(stash[lg[t].lvl][lg[t].group]) :
                             \E j \in 1..Len(emitted) :
                                emitted[j] = stash[lg[t].lvl][lg[t].group][k]]_vars
    /\ [](\A i, j \in 1..Len(emitted) :
              /\ i # j => emitted[i] # emitted[j]
              /\ (/\ i < j
                  /\ pushed[emitted[i]].lvl = pushed[emitted[j]].lvl
                  /\ pushed[emitted[i]].group = pushed[emitted[j]].group)
                    => emitted[i] < emitted[j])

\* C31, amended: no message is emitted but by a Pop taking it from its group;
\* when a Pop returns, it has taken every message of its group once, in push
\* order, and the group is empty; the messages of a group that are emitted
\* are emitted in push order and none twice.
C31PopTakesAll ==
    /\ [][/\ emitted' # emitted
               => \E t \in Threads :
                     /\ lg[t].op = "Pop" /\ lg[t].pc = "locked"
                     /\ lg[t].msgs # <<>> /\ lg'[t].msgs = Tail(lg[t].msgs)
                     /\ emitted' = Append(emitted, Head(lg[t].msgs))
          /\ \A t \in Threads :
                 lg[t].op = "Pop" /\ lg[t].pc = "locked" /\ lg'[t].pc = "idle"
                    => /\ stash'[lg[t].lvl][lg[t].group] = <<>>
                       /\ \A k \in 1..Len(stash[lg[t].lvl][lg[t].group]) :
                             handled[stash[lg[t].lvl][lg[t].group][k]] = 1]_vars
    /\ [](\A i, j \in 1..Len(emitted) :
              /\ i # j => emitted[i] # emitted[j]
              /\ (/\ i < j
                  /\ pushed[emitted[i]].lvl = pushed[emitted[j]].lvl
                  /\ pushed[emitted[i]].group = pushed[emitted[j]].group)
                    => emitted[i] < emitted[j])

\* A Pop is at its end: it has taken the two messages of its group, which are
\* still in the stash, and both were emitted, in push order.
C31Witness ==
    \E t \in Threads :
        /\ lg[t].op = "Pop" /\ lg[t].pc = "locked" /\ lg[t].msgs = <<>>
        /\ stash[lg[t].lvl][lg[t].group] = <<1, 2>>
        /\ emitted = <<1, 2>>

\* C32: every message pushed is in its stash once and was taken by no Pop,
\* or was taken by one Pop once and is in no stash, or was taken once by the
\* Pop that holds the lock of its stash and has not returned; Level returns
\* the initial level or a level a SetLevel wrote.
C32NoneLostNoneTwice ==
    /\ \A m \in 1..Len(pushed) :
          LET places == {<<l, g, k>> \in (DOMAIN stash) \X {"g"} \X (1..Len(pushed)) :
                            k <= Len(stash[l][g]) /\ stash[l][g][k] = m}
          IN  /\ places \subseteq {pushed[m].lvl} \X {pushed[m].group} \X (1..Len(pushed))
              /\ Cardinality(places) <= 1
              /\ handled[m] <= 1
              /\ Cardinality(places) + handled[m] >= 1
              /\ Cardinality(places) + handled[m] = 2
                    => \E t \in Threads :
                          /\ lg[t].op = "Pop" /\ lg[t].pc = "locked"
                          /\ lg[t].lvl = pushed[m].lvl
                          /\ lg[t].group = pushed[m].group
                          /\ stashLock[lg[t].lvl] = t
    /\ levelRet \in {"", "info"} \cup written

\* A Pop has taken a message and holds the lock of the stash, a Push waits
\* for that lock, and a Level call has returned a level that was written.
C32Witness ==
    /\ \E t, u \in Threads :
          /\ lg[t].op = "Pop" /\ lg[t].pc = "locked" /\ handled = <<1>>
          /\ lg[u].op = "Push" /\ lg[u].pc = "waiting" /\ lg[u].lvl = lg[t].lvl
    /\ levelRet = "debug"

C38NoDeadlock ==
    /\ \A l \in DOMAIN stashLock : \A t \in Threads :
          stashLock[l] = t
             => /\ lg[t].pc = "locked" /\ lg[t].op \in {"Push", "Pop"}
                /\ lg[t].lvl = l
                /\ levelLock # t
                /\ \A k \in DOMAIN stashLock : stashLock[k] = t => k = l
                /\ \/ ENABLED (PushAppend(t) \/ PopMsg(t) \/ PopDelete(t))
                   \/ levelLock \in Threads
    /\ \A t \in Threads :
          levelLock = t
             => /\ lg[t].pc = "locked" /\ lg[t].op = "SetLevel"
                /\ ENABLED SetLevelWrite(t)
    /\ (\E t \in Threads : lg[t].pc # "idle")
          => \E t \in Threads :
                ENABLED (StashLock(t) \/ PushAppend(t) \/ PopMsg(t) \/ PopDelete(t)
                            \/ LevelLock(t) \/ SetLevelWrite(t) \/ LevelRead(t))

\* A Pop holds the lock of its stash and has a message to take, while a
\* SetLevel holds the lock of the level.
C38Witness ==
    \E t, u \in Threads :
        /\ lg[t].op = "Pop" /\ lg[t].pc = "locked" /\ lg[t].msgs # <<>>
        /\ stashLock[lg[t].lvl] = t
        /\ levelLock = u

====
